---- MODULE Spec2Model ----
(***************************************************************************)
(* Model of src/src/ui/panes/mod.rs (rmpc): the property resolution       *)
(* functions (Song::format, Property::as_string, Property::as_span), the   *)
(* layout traversal (SizedPaneOrSplit::for_each_pane_custom_data), the     *)
(* pane registry (PaneContainer::get_mut), Song::cmp_by_prop,              *)
(* Song::matches and StringExt::ellipsize.                                 *)
(*                                                                         *)
(* Text is a sequence of one-character strings.  Option<T> is the record   *)
(* None or Some(v).  A Property<T> node is a record with the fields kind,  *)
(* style, default and, by kind, text / key / prop / group.                 *)
(***************************************************************************)
EXTENDS Integers, Sequences, FiniteSets, TLC

VARIABLES
    song,          \* Option<&Song> handed to the resolver
    prop,          \* the Property node (format specification) being resolved
    tag_separator, \* separator handed to the resolver
    strategy,      \* TagResolutionStrategy handed to the resolver
    context,       \* AppContext: status snapshot, queue, db_update_start
    op,            \* which resolver has run: "none", "as_string", "as_span"
    out,           \* what the resolver returned
    panes,         \* the SizedPaneOrSplit tree the traversal runs on
    area,          \* the Rect the traversal starts with
    entry,         \* "for_each_pane" or "for_each_pane_custom_data"
    stack,         \* the explicit stack of (node path, Rect)
    calls,         \* the callback invocations so far, in order
    custom_data,   \* the shared data threaded through the callbacks
    ret,           \* "running", or the Result the traversal returned
    call,          \* the function applied (cmp_by_prop, matches, ellipsize) and its arguments
    retval,        \* what that function returned
    container,     \* the PaneContainer: its pane fields and the others map
    handle,        \* the Result<Panes> of the latest get_mut
    lookups        \* the get_mut calls so far, in order

vars == <<song, prop, tag_separator, strategy, context, op, out,
          panes, area, entry, stack, calls, custom_data, ret,
          call, retval, container, handle, lookups>>

formatVars == <<song, prop, tag_separator, strategy, context, op, out>>
layoutVars == <<panes, area, entry, stack, calls, custom_data, ret>>
callVars == <<call, retval>>
registryVars == <<container, handle, lookups>>

----------------------------------------------------------------------------
(* Option<T> *)

None == [some |-> FALSE]

Some(v) == [some |-> TRUE, val |-> v]

IsSome(o) == o.some

----------------------------------------------------------------------------
(* Strings *)

RECURSIVE Concat(_)
Concat(ss) == IF ss = <<>> THEN <<>> ELSE Head(ss) \o Concat(Tail(ss))

RECURSIVE Join(_, _)
Join(v, separator) ==
    IF Len(v) = 0 THEN <<>>
    ELSE IF Len(v) = 1 THEN v[1]
    ELSE v[1] \o separator \o Join(Tail(v), separator)

Last(v) == v[Len(v)]

DigitChars == <<"0", "1", "2", "3", "4", "5", "6", "7", "8", "9">>

IsDigit(c) == \E i \in 1..10 : DigitChars[i] = c

DigitVal(c) == (CHOOSE i \in 1..10 : DigitChars[i] = c) - 1

RECURSIVE ToNat(_)
ToNat(s) == IF s = <<>> THEN 0 ELSE 10 * ToNat(SubSeq(s, 1, Len(s) - 1)) + DigitVal(Last(s))

RECURSIVE NatToString(_)
NatToString(n) == IF n < 10 THEN <<DigitChars[n + 1]>> ELSE NatToString(n \div 10) \o <<DigitChars[(n % 10) + 1]>>

\* str::parse::<u32>: an optional "+", then one or more decimal digits.  The
\* texts of the model have fewer than ten characters, so the value fits u32.
parse_u32(s) ==
    LET body == IF s # <<>> /\ Head(s) = "+" THEN Tail(s) ELSE s
    IN  IF body # <<>> /\ \A i \in 1..Len(body) : IsDigit(body[i])
        THEN Some(ToNat(body))
        ELSE None

\* format!("{v:0>2}"): decimal, right-aligned in a width of 2, filled with 0.
Pad2(n) == IF n < 10 THEN <<"0">> \o NatToString(n) ELSE NatToString(n)

\* DurationExt::to_string: minutes ":" two-digit seconds (123 s is "2:03").
DurationToString(secs) == NatToString(secs \div 60) \o <<":">> \o Pad2(secs % 60)

----------------------------------------------------------------------------
(* std::path::Path, as Song::file_name and Song::file_ext use it *)

RECURSIVE Split(_, _)
Split(s, c) ==
    IF s = <<>> THEN << <<>> >>
    ELSE LET r == Split(Tail(s), c)
         IN  IF Head(s) = c THEN << <<>> >> \o r
             ELSE << <<Head(s)>> \o Head(r) >> \o Tail(r)

IsNamedComponent(x) == x # <<>> /\ x # <<".">>

\* Path::file_name: the last component, unless the path ends in "..".
PathFileName(path) ==
    LET comps == SelectSeq(Split(path, "/"), IsNamedComponent)
    IN  IF comps = <<>> \/ Last(comps) = <<".", ".">> THEN None ELSE Some(Last(comps))

LastDot(name) ==
    IF \E i \in 1..Len(name) : name[i] = "."
    THEN CHOOSE i \in 1..Len(name) : name[i] = "." /\ \A j \in (i + 1)..Len(name) : name[j] # "."
    ELSE 0

\* Path::file_stem: the name up to its last ".", the whole name when it has
\* none or only a leading one.
PathFileStem(path) ==
    LET n == PathFileName(path)
    IN  IF ~IsSome(n) THEN None
        ELSE IF LastDot(n.val) <= 1 THEN n
        ELSE Some(SubSeq(n.val, 1, LastDot(n.val) - 1))

\* Path::extension: the part after the last ".", None when the name has no
\* "." or only a leading one.
PathExtension(path) ==
    LET n == PathFileName(path)
    IN  IF ~IsSome(n) THEN None
        ELSE IF LastDot(n.val) <= 1 THEN None
        ELSE Some(SubSeq(n.val, LastDot(n.val) + 1, Len(n.val)))

----------------------------------------------------------------------------
(* Song *)

\* HashMap::get
MapGet(m, key) == IF key \in DOMAIN m THEN Some(m[key]) ELSE None

\* Option::map
OptMap(F(_), o) == IF IsSome(o) THEN Some(F(o.val)) ELSE None

file_name(s) == PathFileStem(s.file)

file_ext(s) == PathExtension(s.file)

\* TagResolutionStrategy::resolve: how a multi-valued tag becomes one string.
Resolve(strat, v, separator) ==
    CASE strat = "All" -> Join(v, separator)
      [] strat = "First" -> v[1]
      [] strat = "Last" -> Last(v)

TrackText(v) ==
    LET parsed == parse_u32(Last(v))
    IN  IF IsSome(parsed) THEN Pad2(parsed.val) ELSE Last(v)

format(s, property, separator, strat) ==
    LET resolved(v) == Resolve(strat, v, separator)
    IN  CASE property.tag = "Filename" -> file_name(s)
          [] property.tag = "FileExtension" -> file_ext(s)
          [] property.tag = "File" -> Some(s.file)
          [] property.tag = "Title" -> OptMap(resolved, MapGet(s.metadata, "title"))
          [] property.tag = "Artist" -> OptMap(resolved, MapGet(s.metadata, "artist"))
          [] property.tag = "Album" -> OptMap(resolved, MapGet(s.metadata, "album"))
          [] property.tag = "Duration" -> OptMap(DurationToString, s.duration)
          [] property.tag = "Other" -> OptMap(resolved, MapGet(s.metadata, property.name))
          [] property.tag = "Disc" -> OptMap(Last, MapGet(s.metadata, "disc"))
          [] property.tag = "Track" -> OptMap(TrackText, MapGet(s.metadata, "track"))

----------------------------------------------------------------------------
(* Property<SongProperty>::as_string *)

RECURSIVE as_string(_, _, _, _)

default(self, s, separator, strat) ==
    IF IsSome(self.default) THEN as_string(self.default.val, s, separator, strat) ELSE None

\* Mutant: a Text node that has a default resolves to the default's text.
TextAsStringOrDefault(self) ==
    IF IsSome(self.default) /\ self.default.val.kind = "Text"
    THEN Some(self.default.val.text)
    ELSE Some(self.text)

TextAsString(self) == Some(self.text)

\* song.map(|s| s.stickers.as_ref().and_then(|stickers| stickers.get(key)))
\* is Some(_) whenever a song is supplied, also when the key is not found.
StickerAsString(self, s, separator, strat) ==
    LET sticker ==
            IF IsSome(s)
            THEN Some(IF IsSome(s.val.stickers)
                      THEN MapGet(s.val.stickers.val, self.key)
                      ELSE None)
            ELSE None
    IN  IF IsSome(sticker) THEN sticker.val
        ELSE default(self, s, separator, strat)

PropertyAsString(self, s, separator, strat) ==
    IF IsSome(s)
    THEN LET v == format(s.val, self.prop, separator, strat)
         IN  IF IsSome(v) THEN v ELSE default(self, s, separator, strat)
    ELSE default(self, s, separator, strat)

\* The loop over the members of a group, from member i on, with buf so far.
RECURSIVE GroupLoopAsString(_, _, _, _, _, _)

\* Mutant: each member's text is put in front of the buffer.
GroupLoopAsStringReversed(self, i, buf, s, separator, strat) ==
    IF i > Len(self.group) THEN Some(buf)
    ELSE LET res == as_string(self.group[i], s, separator, strat)
         IN  IF IsSome(res)
             THEN GroupLoopAsString(self, i + 1, res.val \o buf, s, separator, strat)
             ELSE IF IsSome(self.default)
                  THEN as_string(self.default.val, s, separator, strat)
                  ELSE None

\* Mutant: a failing member ends the loop with what the buffer holds.
GroupLoopAsStringPartial(self, i, buf, s, separator, strat) ==
    IF i > Len(self.group) THEN Some(buf)
    ELSE LET res == as_string(self.group[i], s, separator, strat)
         IN  IF IsSome(res)
             THEN GroupLoopAsString(self, i + 1, buf \o res.val, s, separator, strat)
             ELSE IF buf # <<>> THEN Some(buf)
             ELSE IF IsSome(self.default)
                  THEN as_string(self.default.val, s, separator, strat)
                  ELSE None

GroupLoopAsString(self, i, buf, s, separator, strat) ==
    IF i > Len(self.group) THEN Some(buf)
    ELSE LET res == as_string(self.group[i], s, separator, strat)
         IN  IF IsSome(res)
             THEN GroupLoopAsString(self, i + 1, buf \o res.val, s, separator, strat)
             ELSE IF IsSome(self.default)
                  THEN as_string(self.default.val, s, separator, strat)
                  ELSE None

GroupAsString(self, s, separator, strat) ==
    GroupLoopAsString(self, 1, <<>>, s, separator, strat)

as_string(self, s, separator, strat) ==
    CASE self.kind = "Text" -> TextAsString(self)
      [] self.kind = "Sticker" -> StickerAsString(self, s, separator, strat)
      [] self.kind = "Property" -> PropertyAsString(self, s, separator, strat)
      [] self.kind = "Group" -> GroupAsString(self, s, separator, strat)

----------------------------------------------------------------------------
(* Property<PropertyKind>::as_span *)

\* Style::default()
DefaultStyle == [fg |-> None, bg |-> None]

\* Style::patch: an attribute the other style sets replaces this style's,
\* an attribute it leaves unset keeps this style's.
PatchStyle(self, other) ==
    [fg |-> IF IsSome(other.fg) THEN other.fg ELSE self.fg,
     bg |-> IF IsSome(other.bg) THEN other.bg ELSE self.bg]

\* self.style.unwrap_or_default()
StyleOf(self) == IF IsSome(self.style) THEN self.style.val ELSE DefaultStyle

\* Option<Style>::unwrap_or(style)
UnwrapOr(o, style) == IF IsSome(o) THEN o.val ELSE style

Span(content, style) == [content |-> content, style |-> style]

Left(span) == [left |-> span]

Right(spans) == [right |-> spans]

IsLeft(e) == "left" \in DOMAIN e

\* ScanStatus::new(Some(update_start)).get_str().unwrap_or_default()
ScanStatusText(update_start) == <<"~">>

RECURSIVE as_span(_, _, _, _, _)

default_as_span(self, s, ctx, separator, strat) ==
    IF IsSome(self.default) THEN as_span(self.default.val, s, ctx, separator, strat) ELSE None

TextAsSpan(self) == Some(Left(Span(self.text, StyleOf(self))))

\* song.and_then(|s| s.stickers.as_ref().and_then(|stickers| stickers.get(key)))
StickerAsSpan(self, s, ctx, separator, strat) ==
    LET sticker ==
            IF IsSome(s) /\ IsSome(s.val.stickers)
            THEN MapGet(s.val.stickers.val, self.key)
            ELSE None
    IN  IF IsSome(sticker) THEN Some(Left(Span(sticker.val, StyleOf(self))))
        ELSE default_as_span(self, s, ctx, separator, strat)

SongPropertyAsSpan(self, s, ctx, separator, strat) ==
    IF IsSome(s)
    THEN LET v == format(s.val, self.prop, separator, strat)
         IN  IF IsSome(v) THEN Some(Left(Span(v.val, StyleOf(self))))
             ELSE default_as_span(self, s, ctx, separator, strat)
    ELSE default_as_span(self, s, ctx, separator, strat)

OnOffOneshotAsSpan(p, value, style) ==
    Some(Left(Span(
        CASE value = "On" -> p.on_label
          [] value = "Off" -> p.off_label
          [] value = "Oneshot" -> p.oneshot_label,
        UnwrapOr(CASE value = "On" -> p.on_style
                   [] value = "Off" -> p.off_style
                   [] value = "Oneshot" -> p.oneshot_style, style))))

\* Mutant: whichever the state, the style configured for "on" is used.
OnOffAsSpanOnStyle(p, value, style) ==
    Some(Left(Span(IF value THEN p.on_label ELSE p.off_label, UnwrapOr(p.on_style, style))))

OnOffAsSpan(p, value, style) ==
    Some(Left(Span(IF value THEN p.on_label ELSE p.off_label,
                   UnwrapOr(IF value THEN p.on_style ELSE p.off_style, style))))

\* context.find_current_song_in_queue(): the index (from 0) of the queue
\* entry that is playing, with the entry; None when nothing is playing.
find_current_song_in_queue(ctx) ==
    LET at == {i \in 1..Len(ctx.queue) : Some(ctx.queue[i].id) = ctx.status.songid}
    IN  IF at = {} THEN None
        ELSE LET i == CHOOSE i \in at : \A j \in at : i <= j
             IN  Some([idx |-> i - 1, song |-> ctx.queue[i]])

\* queue.iter().filter_map(|s| s.duration).sum(), in seconds
RECURSIVE SumDurations(_)
SumDurations(queue) ==
    IF queue = <<>> THEN 0
    ELSE (IF IsSome(Head(queue).duration) THEN Head(queue).duration.val ELSE 0)
         + SumDurations(Tail(queue))

\* Mutant: the entry that is playing is skipped too.
SkipPastCurrent(queue, n) ==
    IF n + 1 >= Len(queue) THEN <<>> ELSE SubSeq(queue, n + 2, Len(queue))

\* Iterator::skip(n)
Skip(queue, n) == IF n >= Len(queue) THEN <<>> ELSE SubSeq(queue, n + 1, Len(queue))

\* Duration::format_to_duration(separator): days, hours, minutes and
\* seconds, from the largest unit that is not zero down to the seconds.
format_to_duration(secs, separator) ==
    LET seconds == NatToString(secs % 60) \o <<"s">>
        minutes == NatToString((secs \div 60) % 60) \o <<"m">>
        hours == NatToString((secs \div 3600) % 24) \o <<"h">>
        days == NatToString(secs \div 86400) \o <<"d">>
    IN  IF secs >= 86400
        THEN days \o separator \o hours \o separator \o minutes \o separator \o seconds
        ELSE IF secs >= 3600 THEN hours \o separator \o minutes \o separator \o seconds
        ELSE IF secs >= 60 THEN minutes \o separator \o seconds
        ELSE seconds

StatusPropertyAsSpan(self, s, ctx, separator, strat) ==
    LET style == StyleOf(self)
        status == ctx.status
        p == self.prop
    IN  CASE p.tag = "State" ->
                Some(Left(Span(
                    CASE status.state = "Play" -> p.playing_label
                      [] status.state = "Stop" -> p.stopped_label
                      [] status.state = "Pause" -> p.paused_label,
                    UnwrapOr(CASE status.state = "Play" -> p.playing_style
                               [] status.state = "Stop" -> p.stopped_style
                               [] status.state = "Pause" -> p.paused_style, style))))
          [] p.tag = "Duration" -> Some(Left(Span(DurationToString(status.duration), style)))
          [] p.tag = "Elapsed" -> Some(Left(Span(DurationToString(status.elapsed), style)))
          [] p.tag = "Volume" -> Some(Left(Span(NatToString(status.volume), style)))
          [] p.tag = "Repeat" -> OnOffAsSpan(p, status.repeat, style)
          [] p.tag = "Random" -> OnOffAsSpan(p, status.random, style)
          [] p.tag = "Consume" -> OnOffOneshotAsSpan(p, status.consume, style)
          [] p.tag = "Single" -> OnOffOneshotAsSpan(p, status.single, style)
          [] p.tag = "Bitrate" ->
                IF IsSome(status.bitrate)
                THEN Some(Left(Span(NatToString(status.bitrate.val), style)))
                ELSE default_as_span(self, s, ctx, separator, strat)
          [] p.tag = "Crossfade" ->
                IF IsSome(status.xfade)
                THEN Some(Left(Span(NatToString(status.xfade.val), style)))
                ELSE default_as_span(self, s, ctx, separator, strat)
          [] p.tag = "QueueTimeTotal" ->
                LET sum == SumDurations(ctx.queue)
                IN  Some(Left(Span(format_to_duration(sum, p.separator), style)))
          [] p.tag = "QueueTimeRemaining" ->
                LET current == find_current_song_in_queue(ctx)
                    sum == IF IsSome(current)
                           THEN SumDurations(Skip(ctx.queue, current.val.idx))
                           ELSE 0
                IN  Some(Left(Span(format_to_duration(sum, p.separator), style)))

WidgetPropertyAsSpan(self, s, ctx, separator, strat) ==
    LET style == StyleOf(self)
        status == ctx.status
        p == self.prop
    IN  CASE p.tag = "States" ->
                LET separator_span == Span(<<" ", "/", " ">>, p.separator_style)
                IN  Some(Right(<<
                        Span(<<"R", "e", "p", "e", "a", "t">>,
                             IF status.repeat THEN p.active_style ELSE style),
                        separator_span,
                        Span(<<"R", "a", "n", "d", "o", "m">>,
                             IF status.random THEN p.active_style ELSE style),
                        separator_span,
                        CASE status.consume = "On" ->
                                Span(<<"C", "o", "n", "s", "u", "m", "e">>, p.active_style)
                          [] status.consume = "Off" ->
                                Span(<<"C", "o", "n", "s", "u", "m", "e">>, style)
                          [] status.consume = "Oneshot" ->
                                Span(<<"O", "n", "e", "s", "h", "o", "t", "(", "C", ")">>,
                                     p.active_style),
                        separator_span,
                        CASE status.single = "On" ->
                                Span(<<"S", "i", "n", "g", "l", "e">>, p.active_style)
                          [] status.single = "Off" ->
                                Span(<<"S", "i", "n", "g", "l", "e">>, style)
                          [] status.single = "Oneshot" ->
                                Span(<<"O", "n", "e", "s", "h", "o", "t", "(", "S", ")">>,
                                     p.active_style)
                    >>))
          [] p.tag = "ScanStatus" ->
                IF IsSome(ctx.db_update_start)
                THEN Some(Left(Span(ScanStatusText(ctx.db_update_start.val), style)))
                ELSE None

\* The loop over the members of a group, from member i on, with buf so far.
RECURSIVE GroupLoopAsSpan(_, _, _, _, _, _, _)
GroupLoopAsSpan(self, i, buf, s, ctx, separator, strat) ==
    IF i > Len(self.group) THEN Some(Right(buf))
    ELSE LET res == as_span(self.group[i], s, ctx, separator, strat)
         IN  IF ~IsSome(res) THEN None
             ELSE IF IsLeft(res.val)
                  THEN GroupLoopAsSpan(self, i + 1, Append(buf, res.val.left),
                                       s, ctx, separator, strat)
                  ELSE GroupLoopAsSpan(self, i + 1, buf \o res.val.right,
                                       s, ctx, separator, strat)

GroupAsSpan(self, s, ctx, separator, strat) ==
    GroupLoopAsSpan(self, 1, <<>>, s, ctx, separator, strat)

as_span(self, s, ctx, separator, strat) ==
    CASE self.kind = "Text" -> TextAsSpan(self)
      [] self.kind = "Sticker" -> StickerAsSpan(self, s, ctx, separator, strat)
      [] self.kind = "Property" /\ self.prop.cls = "Song" ->
            SongPropertyAsSpan(self, s, ctx, separator, strat)
      [] self.kind = "Property" /\ self.prop.cls = "Status" ->
            StatusPropertyAsSpan(self, s, ctx, separator, strat)
      [] self.kind = "Property" /\ self.prop.cls = "Widget" ->
            WidgetPropertyAsSpan(self, s, ctx, separator, strat)
      [] self.kind = "Group" -> GroupAsSpan(self, s, ctx, separator, strat)

----------------------------------------------------------------------------
(* The inputs of the resolvers: songs, contexts and format specifications *)

\* The longest group of a format specification.
MaxGroupLen == 2

\* The longest group nested in another group.
MaxInnerLen == 1

Text(t, style, d) == [kind |-> "Text", text |-> t, style |-> style, default |-> d]

Sticker(k, style, d) == [kind |-> "Sticker", key |-> k, style |-> style, default |-> d]

Property(p, style, d) == [kind |-> "Property", prop |-> p, style |-> style, default |-> d]

Group(g, style, d) == [kind |-> "Group", group |-> g, style |-> style, default |-> d]

SongProperty(t) == [cls |-> "Song", tag |-> t]

StatusProperty(t) == [cls |-> "Status", tag |-> t]

Red == [fg |-> Some("red"), bg |-> None]

Green == [fg |-> Some("green"), bg |-> None]

SongTitled ==
    [file |-> <<"d", "/", "a", ".", "m">>, duration |-> Some(123),
     metadata |-> [title |-> << <<"t">> >>, artist |-> << <<"r">> >>],
     stickers |-> None]

SongFull ==
    [file |-> <<"b">>, duration |-> None,
     metadata |-> [title |-> << <<"t">>, <<"u">> >>, track |-> << <<"x">>, <<"7">> >>],
     stickers |-> Some([j |-> <<"s">>])]

SongBare ==
    [file |-> <<".", "h">>, duration |-> Some(59),
     metadata |-> [track |-> << <<"x">> >>],
     stickers |-> Some([k |-> <<"s">>])]

Songs == {None, Some(SongTitled), Some(SongFull), Some(SongBare)}

Resolutions ==
    {[separator |-> <<",">>, strategy |-> "All"], [separator |-> <<>>, strategy |-> "Last"]}

Fallback == Text(<<"f">>, None, None)

DefaultOpts == {None, Some(Fallback)}

Atoms ==
    {Text(<<"a">>, None, d) : d \in DefaultOpts}
    \cup {Property(SongProperty("Title"), None, None)}
    \cup {Property(SongProperty("Track"), None, d) : d \in DefaultOpts}
    \cup {Sticker("k", Some(Red), d) : d \in DefaultOpts}

InnerAtoms == {Property(SongProperty("Track"), None, None), Text(<<"b">>, Some(Green), None)}

SeqsUpTo(S, n) == UNION {[1..k -> S] : k \in 0..n}

InnerGroups ==
    {Group(g, None, d) : g \in SeqsUpTo(InnerAtoms, MaxInnerLen),
                         d \in {None, Some(Text(<<"g">>, None, None))}}

GroupDefaults ==
    {None, Some(Fallback),
     Some(Group(<<Property(SongProperty("Title"), None, None), Text(<<"h">>, None, None)>>,
                None, None))}

SongGroups ==
    {Group(g, Some(Red), d) : g \in SeqsUpTo(Atoms \cup InnerGroups, MaxGroupLen),
                              d \in GroupDefaults}

\* Default chains of depth two on a single node.
SongChains ==
    {Property(SongProperty(t), None, Some(a)) :
        t \in {"Track", "Filename", "FileExtension", "File", "Duration", "Disc", "Artist", "Album"},
        a \in {Sticker("k", None, Some(Fallback)), Property(SongProperty("Track"), None, None)}}
    \cup {Sticker("k", None, Some(Property(SongProperty("Track"), None, d))) : d \in DefaultOpts}
    \cup {Property([cls |-> "Song", tag |-> "Other", name |-> "artist"], None, None)}

SongFormats == Atoms \cup SongGroups \cup SongChains

StateProperty ==
    [cls |-> "Status", tag |-> "State",
     playing_label |-> <<"p">>, paused_label |-> <<"|">>, stopped_label |-> <<"s">>,
     playing_style |-> Some(Green), paused_style |-> None, stopped_style |-> Some(Red)]

OnOffProperty(t) ==
    [cls |-> "Status", tag |-> t, on_label |-> <<"y">>, off_label |-> <<"n">>,
     on_style |-> Some(Green), off_style |-> None]

OnOffOneshotProperty(t) ==
    [cls |-> "Status", tag |-> t, on_label |-> <<"y">>, off_label |-> <<"n">>,
     oneshot_label |-> <<"1">>, on_style |-> None, off_style |-> Some(Red),
     oneshot_style |-> Some(Green)]

StatesWidget ==
    [cls |-> "Widget", tag |-> "States", active_style |-> Green, separator_style |-> Red]

StatusAtoms ==
    {Text(<<"a">>, Some(Green), d) : d \in DefaultOpts} \cup
    {Property(StatusProperty("Bitrate"), None, d) : d \in DefaultOpts}
    \cup {Property(StatusProperty("Crossfade"), Some(Red), d) : d \in DefaultOpts}
    \cup {Property([cls |-> "Widget", tag |-> "ScanStatus"], None, d) : d \in DefaultOpts}
    \cup {Property(p, s, None) :
            p \in {StateProperty, OnOffProperty("Repeat"), OnOffProperty("Random"),
                   OnOffOneshotProperty("Consume"), OnOffOneshotProperty("Single"),
                   StatusProperty("Duration"), StatusProperty("Elapsed"),
                   StatusProperty("Volume"), StatesWidget},
            s \in {None, Some(Red)}}

StatusMembers ==
    {Property(StatusProperty("Bitrate"), None, None),
     Property(StatusProperty("Bitrate"), None, Some(Fallback)),
     Property(StatesWidget, None, None),
     Property(SongProperty("Title"), None, None),
     Text(<<"a">>, None, Some(Fallback))}

StatusGroups ==
    {Group(g, None, d) : g \in SeqsUpTo(StatusMembers, MaxGroupLen),
                         d \in {None, Some(Fallback)}}

StatusFormats == StatusAtoms \cup StatusGroups

Status(state, onoff, oneshot, rate) ==
    [state |-> state, repeat |-> onoff, random |-> ~onoff, consume |-> oneshot,
     single |-> IF oneshot = "Oneshot" THEN "On" ELSE "Oneshot",
     bitrate |-> rate, xfade |-> IF IsSome(rate) THEN None ELSE Some(3),
     volume |-> 100, elapsed |-> 59, duration |-> 123, songid |-> None]

Contexts ==
    {[status |-> Status("Play", TRUE, "On", Some(320)), db_update_start |-> None,
      queue |-> <<>>],
     [status |-> Status("Pause", FALSE, "Off", None), db_update_start |-> Some(1),
      queue |-> <<>>],
     [status |-> Status("Stop", TRUE, "Oneshot", None), db_update_start |-> None,
      queue |-> <<>>]}

\* The longest queue.
MaxQueueLen == 3

\* The durations of queue entries: none, a minute and a second, an hour.
QueueDurations == {None, Some(61), Some(3600)}

\* Queues of entries with ids 1, 2, ... in queue order.
Queues ==
    {[i \in 1..n |-> [id |-> i, duration |-> d[i]]] :
        <<n, d>> \in UNION {{<<n, d>> : d \in [1..n -> QueueDurations]} : n \in 0..MaxQueueLen}}

\* Contexts with a queue: nothing playing, or the entry of some id playing;
\* the last id is that of an entry no longer in the queue.
QueueContexts ==
    {[status |-> [Status("Play", TRUE, "On", None) EXCEPT !.songid = id],
      db_update_start |-> None, queue |-> q] :
        q \in Queues, id \in {None} \cup {Some(i) : i \in 1..(MaxQueueLen + 1)}}

QueueFormats ==
    {Property([cls |-> "Status", tag |-> t, separator |-> sep], s, d) :
        t \in {"QueueTimeTotal", "QueueTimeRemaining"}, sep \in {<<":">>, <<>>},
        s \in {None, Some(Red)}, d \in DefaultOpts}

\* A Property<SongProperty>: every Property node of the tree is a song property.
RECURSIVE IsSongFormat(_)
IsSongFormat(f) ==
    /\ f.kind = "Property" => f.prop.cls = "Song"
    /\ f.kind = "Group" => \A i \in 1..Len(f.group) : IsSongFormat(f.group[i])
    /\ IsSome(f.default) => IsSongFormat(f.default.val)

----------------------------------------------------------------------------
(* The resolvers as operations: each is applied once to the chosen input *)

Idle == "idle"

NoFormat ==
    /\ song = Idle /\ prop = Idle /\ tag_separator = Idle /\ strategy = Idle
    /\ context = Idle /\ op = Idle /\ out = Idle

NoLayout ==
    /\ panes = Idle /\ area = Idle /\ entry = Idle /\ stack = Idle
    /\ calls = Idle /\ custom_data = Idle /\ ret = Idle

NoCall == call = Idle /\ retval = Idle

NoRegistry == container = Idle /\ handle = Idle /\ lookups = Idle

FormatInit ==
    /\ \/ prop \in SongFormats /\ song \in Songs /\ context \in {CHOOSE c \in Contexts : TRUE}
       \/ prop \in StatusFormats /\ song \in {None, Some(SongTitled)} /\ context \in Contexts
       \/ prop \in QueueFormats /\ song \in {None} /\ context \in QueueContexts
    /\ \E r \in Resolutions : tag_separator = r.separator /\ strategy = r.strategy
    /\ op = "none"
    /\ out = None
    /\ NoLayout /\ NoCall /\ NoRegistry

AsString ==
    /\ op = "none"
    /\ IsSongFormat(prop)
    /\ op' = "as_string"
    /\ out' = as_string(prop, song, tag_separator, strategy)
    /\ UNCHANGED <<song, prop, tag_separator, strategy, context, layoutVars, callVars, registryVars>>

AsSpan ==
    /\ op = "none"
    /\ op' = "as_span"
    /\ out' = as_span(prop, song, context, tag_separator, strategy)
    /\ UNCHANGED <<song, prop, tag_separator, strategy, context, layoutVars, callVars, registryVars>>

FormatNext == AsString \/ AsSpan

SpecFormat == FormatInit /\ [][FormatNext]_vars

----------------------------------------------------------------------------
(* SizedPaneOrSplit::for_each_pane and for_each_pane_custom_data *)

Rect(x, y, w, h) == [x |-> x, y |-> y, width |-> w, height |-> h]

SatSub(a, b) == IF a > b THEN a - b ELSE 0

Min(a, b) == IF a < b THEN a ELSE b

\* Block::default().borders(b).inner(area): the area inset by one cell on
\* every side that has a border.
Inner(borders, r) ==
    LET x == IF "LEFT" \in borders THEN Min(r.x + 1, r.x + r.width) ELSE r.x
        w1 == IF "LEFT" \in borders THEN SatSub(r.width, 1) ELSE r.width
        y == IF "TOP" \in borders THEN Min(r.y + 1, r.y + r.height) ELSE r.y
        h1 == IF "TOP" \in borders THEN SatSub(r.height, 1) ELSE r.height
        w == IF "RIGHT" \in borders THEN SatSub(w1, 1) ELSE w1
        h == IF "BOTTOM" \in borders THEN SatSub(h1, 1) ELSE h1
    IN  Rect(x, y, w, h)

\* Size::into_constraint: the weight of a child; a percentage is taken of the
\* length of the parent's other axis.
into_constraint(size, parent_other_size) ==
    IF size.unit = "percent" THEN (size.n * parent_other_size) \div 100 ELSE size.n

RECURSIVE Sum(_)
Sum(ws) == IF ws = <<>> THEN 0 ELSE Head(ws) + Sum(Tail(ws))

\* Layout::new(direction, constraints).split(area): one Rect per constraint,
\* in order, each with an extent along the direction in proportion to its
\* weight; the last one ends where the area ends.
LayoutSplit(direction, constraints, r) ==
    LET n == Len(constraints)
        total == IF direction = "Horizontal" THEN r.width ELSE r.height
        W == Sum(constraints)
        edge(k) == IF k = 0 THEN 0
                   ELSE IF k = n \/ W = 0 THEN (IF k = n THEN total ELSE 0)
                   ELSE (total * Sum(SubSeq(constraints, 1, k))) \div W
    IN  [k \in 1..n |->
            IF direction = "Horizontal"
            THEN Rect(r.x + edge(k - 1), r.y, edge(k) - edge(k - 1), r.height)
            ELSE Rect(r.x, r.y + edge(k - 1), r.width, edge(k) - edge(k - 1))]

\* The node a path of child indices leads to; <<>> is the root.
RECURSIVE NodeAt(_, _)
NodeAt(t, path) ==
    IF path = <<>> THEN t ELSE NodeAt(t.panes[Head(path)].pane, Tail(path))

Ok == [ok |-> TRUE]

Err(e) == [ok |-> FALSE, err |-> e]

Running == [done |-> FALSE]

Returned(result) == [done |-> TRUE, result |-> result]

\* Mutant: an error a callback returns is dropped and the loop goes on.
TryIgnoresError(result, rest) == [ret |-> Running, stack |-> rest]

\* The ? operator after a callback: an Err returns it from the function at
\* once, an Ok goes on with the loop.
Try(result, rest) ==
    IF result.ok THEN [ret |-> Running, stack |-> rest]
    ELSE [ret |-> Returned(result), stack |-> rest]

\* Mutant: the first child is not pushed.
ExtendSkipsFirst(stk, path, areas) ==
    stk \o [k \in 1..SatSub(Len(areas), 1) |-> [path |-> Append(path, k + 1), area |-> areas[k + 1]]]

\* Mutant: the children are pushed last first.
ExtendReversed(stk, path, areas) ==
    stk \o [k \in 1..Len(areas) |->
                [path |-> Append(path, Len(areas) + 1 - k), area |-> areas[Len(areas) + 1 - k]]]

\* Mutant: every child is paired with the first area.
ExtendFirstArea(stk, path, areas) ==
    stk \o [idx \in 1..Len(areas) |-> [path |-> Append(path, idx), area |-> areas[1]]]

\* Mutant: the children are pushed twice.
ExtendTwice(stk, path, areas) ==
    stk \o [idx \in 1..Len(areas) |-> [path |-> Append(path, idx), area |-> areas[idx]]]
        \o [idx \in 1..Len(areas) |-> [path |-> Append(path, idx), area |-> areas[idx]]]

\* Mutant: the children are paired with the areas in the opposite order.
ExtendSwapsAreas(stk, path, areas) ==
    stk \o [idx \in 1..Len(areas) |->
                [path |-> Append(path, idx), area |-> areas[Len(areas) + 1 - idx]]]

\* stack.extend(areas.iter().enumerate().map(|(idx, area)| (&panes[idx].pane, *area)))
Extend(stk, path, areas) ==
    stk \o [idx \in 1..Len(areas) |-> [path |-> Append(path, idx), area |-> areas[idx]]]

\* What a callback may do: return Ok or an error of its own, and, when it is
\* handed the custom data, leave it or change it.
CallbackResults(k) == {Ok, Err(k)}

MaxData == 1

CallbackData(d) == IF d < MaxData THEN {d, d + 1} ELSE {d}

\* Mutant: the callback works on a copy, the loop's value stays as it was.
PassedByValue(before, written) == before

\* &mut custom_data: what the callback leaves in the data is the value the
\* loop holds afterwards.
MutBorrow(before, written) == written

\* One iteration of the loop that pops a Pane.
VisitPane ==
    /\ ~ret.done
    /\ stack # <<>>
    /\ LET top == Last(stack)
           rest == SubSeq(stack, 1, Len(stack) - 1)
           node == NodeAt(panes, top.path)
       IN  /\ node.type = "Pane"
           /\ LET block == node.pane.borders
                  pane_area == Inner(block, top.area)
              IN  \E result \in CallbackResults(Len(calls) + 1) :
                  \E data \in IF entry = "for_each_pane" THEN {custom_data}
                              ELSE CallbackData(custom_data) :
                      /\ calls' = Append(calls,
                            [callback |-> "pane", path |-> top.path, pane |-> node.pane,
                             pane_area |-> pane_area, block |-> block, area |-> top.area,
                             data_in |-> custom_data, data_out |-> data, result |-> result])
                      /\ custom_data' = MutBorrow(custom_data, data)
                      /\ ret' = Try(result, rest).ret
                      /\ stack' = Try(result, rest).stack
    /\ UNCHANGED <<panes, area, entry, formatVars, callVars, registryVars>>

\* One iteration of the loop that pops a Split.
VisitSplit ==
    /\ ~ret.done
    /\ stack # <<>>
    /\ LET top == Last(stack)
           rest == SubSeq(stack, 1, Len(stack) - 1)
           node == NodeAt(panes, top.path)
       IN  /\ node.type = "Split"
           /\ LET parent_other_size ==
                      IF node.direction = "Horizontal" THEN top.area.height ELSE top.area.width
                  constraints ==
                      [i \in 1..Len(node.panes) |->
                          into_constraint(node.panes[i].size, parent_other_size)]
                  block == node.borders
                  pane_areas == Inner(block, top.area)
                  areas == LayoutSplit(node.direction, constraints, pane_areas)
              IN  \E result \in IF entry = "for_each_pane" THEN {Ok}
                                ELSE CallbackResults(Len(calls) + 1) :
                  \E data \in IF entry = "for_each_pane" THEN {custom_data}
                              ELSE CallbackData(custom_data) :
                      /\ calls' = Append(calls,
                            [callback |-> "split", path |-> top.path,
                             block |-> block, area |-> top.area,
                             data_in |-> custom_data, data_out |-> data, result |-> result])
                      /\ custom_data' = MutBorrow(custom_data, data)
                      /\ ret' = Try(result, rest).ret
                      /\ stack' = IF result.ok THEN Extend(rest, top.path, areas)
                                  ELSE Try(result, rest).stack
    /\ UNCHANGED <<panes, area, entry, formatVars, callVars, registryVars>>

\* The loop ends on the empty stack and the function returns Ok(()).
Return ==
    /\ ~ret.done
    /\ stack = <<>>
    /\ ret' = Returned(Ok)
    /\ UNCHANGED <<panes, area, entry, stack, calls, custom_data, formatVars, callVars, registryVars>>

----------------------------------------------------------------------------
(* The inputs of the traversal: layout trees and areas *)

\* The most nodes (panes and splits) of a layout tree.
MaxNodes == 4

Borders == {"TOP", "BOTTOM", "LEFT", "RIGHT"}

\* How the nodes of a generated tree get their attributes: the direction of
\* the root (it alternates with the depth), the borders of splits and of
\* panes, and whether sizes are equal percentages or lengths 1, 2, ...
Schemes ==
    {[direction |-> d, split_borders |-> b[1], pane_borders |-> b[2], sizes |-> z] :
        d \in {"Horizontal", "Vertical"},
        b \in {<<{}, {}>>, <<Borders, {"TOP"}>>, <<{"LEFT"}, Borders>>},
        z \in {"percent", "length"}}

DirectionAt(sch, depth) ==
    IF depth % 2 = 0 THEN sch.direction
    ELSE IF sch.direction = "Horizontal" THEN "Vertical" ELSE "Horizontal"

SizeAt(sch, i) == IF sch.sizes = "percent" THEN [unit |-> "percent", n |-> 50]
                  ELSE [unit |-> "length", n |-> i]

Pane(sch) == [type |-> "Pane", pane |-> [pane |-> "Queue", borders |-> sch.pane_borders]]

SplitOf(sch, depth, kids) ==
    [type |-> "Split", direction |-> DirectionAt(sch, depth), borders |-> sch.split_borders,
     panes |-> [i \in 1..Len(kids) |-> [size |-> SizeAt(sch, i), pane |-> kids[i]]]]

RECURSIVE TreesOf(_, _, _)
RECURSIVE ForestsOf(_, _, _)

\* The trees of exactly n nodes, the root at the given depth.
TreesOf(n, depth, sch) ==
    IF n = 1 THEN {Pane(sch), SplitOf(sch, depth, <<>>)}
    ELSE {SplitOf(sch, depth, kids) : kids \in ForestsOf(n - 1, depth + 1, sch)}

\* The sequences of trees of n nodes together.
ForestsOf(n, depth, sch) ==
    IF n = 0 THEN {<<>>}
    ELSE UNION {{<<t>> \o rest : t \in TreesOf(k, depth, sch),
                                 rest \in ForestsOf(n - k, depth, sch)} : k \in 1..n}

Trees == UNION {TreesOf(n, 0, sch) : n \in 1..MaxNodes, sch \in Schemes}

Areas == {Rect(0, 0, 100, 10), Rect(2, 1, 7, 3)}

\* let mut stack = vec![(self, area)];
LayoutInit ==
    /\ panes \in Trees
    /\ area \in Areas
    /\ entry \in {"for_each_pane", "for_each_pane_custom_data"}
    /\ stack = <<[path |-> <<>>, area |-> area]>>
    /\ calls = <<>>
    /\ custom_data = 0
    /\ ret = Running
    /\ NoFormat /\ NoCall /\ NoRegistry

LayoutNext == VisitPane \/ VisitSplit \/ Return

SpecLayout == LayoutInit /\ [][LayoutNext]_vars

\* The loop is not suspended between iterations: a traversal that can take a
\* step takes it.
SpecLayoutFair == LayoutInit /\ [][LayoutNext]_vars /\ WF_vars(LayoutNext)

----------------------------------------------------------------------------
(* PaneContainer: new, init_other_panes, get_mut, and the pane_call! macro *)

\* The PaneType keys.
PaneType(tag) == [tag |-> tag]

PaneTypeBrowser(root_tag, separator) ==
    [tag |-> "Browser", root_tag |-> root_tag, separator |-> separator]

PaneTypeProperty(content, align, scroll_speed) ==
    [tag |-> "Property", content |-> content, align |-> align, scroll_speed |-> scroll_speed]

\* The pane types get_mut answers with a borrow of one of the container's
\* own fields, or with the unit variant TabContent.
StaticTags ==
    {"Queue", "Logs", "Directories", "Artists", "AlbumArtists", "Albums", "Playlists",
     "Search", "AlbumArt", "Lyrics", "ProgressBar", "Header", "Tabs", "TabContent",
     "FrameCount", "Cava"}

\* A pane instance as the container owns it: what it is, and its mutable
\* state (0 after construction).
PaneNew(kind) == [kind |-> kind, state |-> 0]

\* TagBrowserPane::new(root_tag, target_pane, separator, context)
TagBrowserPaneNew(root_tag, target_pane, separator) ==
    [kind |-> "TagBrowserPane", root_tag |-> root_tag, target_pane |-> target_pane,
     separator |-> separator, state |-> 0]

\* PropertyPane::new(content, align, scroll_speed, context): a view over the
\* content with its own scroll state.
PropertyPaneNew(content, align, scroll_speed, ctx) ==
    [kind |-> "PropertyPane", content |-> content, align |-> align,
     scroll_speed |-> scroll_speed, state |-> 0]

\* tab.panes.panes_iter(): the panes at the leaves of the tab's tree of
\* splits, however deep, left to right.
RECURSIVE panes_iter(_)
RECURSIVE panes_iter_all(_)
panes_iter(t) ==
    IF t.type = "Pane" THEN <<t.pane>>
    ELSE panes_iter_all([i \in 1..Len(t.panes) |-> t.panes[i].pane])

panes_iter_all(ts) ==
    IF ts = <<>> THEN <<>> ELSE panes_iter(Head(ts)) \o panes_iter_all(Tail(ts))

\* context.config.tabs.tabs.iter().flat_map(|tab| tab.panes.panes_iter()):
\* the pane types of the panes of every tab.
ConfiguredPanes(ctx) ==
    UNION {{panes_iter(ctx.config.tabs[t].panes)[i].pane :
                i \in 1..Len(panes_iter(ctx.config.tabs[t].panes))} :
           t \in 1..Len(ctx.config.tabs)}

\* Mutant: only the first tab of the configuration is looked at.
init_other_panes_first_tab(ctx) ==
    [k \in {p \in ConfiguredPanes([config |-> [tabs |->
                    IF ctx.config.tabs = <<>> THEN <<>> ELSE <<Head(ctx.config.tabs)>>]]) :
                p.tag = "Browser"} |->
        TagBrowserPaneNew(<<"Custom", k.root_tag>>, k, k.separator)]

\* PaneContainer::init_other_panes, collected into the HashMap: one
\* TagBrowserPane per Browser key of the configuration.
init_other_panes(ctx) ==
    [k \in {p \in ConfiguredPanes(ctx) : p.tag = "Browser"} |->
        TagBrowserPaneNew(<<"Custom", k.root_tag>>, k, k.separator)]

\* PaneContainer::new
new(ctx) ==
    [queue |-> PaneNew("QueuePane"),
     logs |-> PaneNew("LogsPane"),
     directories |-> PaneNew("DirectoriesPane"),
     albums |-> PaneNew("AlbumsPane"),
     artists |-> TagBrowserPaneNew(<<"Artist">>, PaneType("Artists"), None),
     album_artists |-> TagBrowserPaneNew(<<"AlbumArtist">>, PaneType("AlbumArtists"), None),
     playlists |-> PaneNew("PlaylistsPane"),
     search |-> PaneNew("SearchPane"),
     album_art |-> PaneNew("AlbumArtPane"),
     lyrics |-> PaneNew("LyricsPane"),
     progress_bar |-> PaneNew("ProgressBarPane"),
     header |-> PaneNew("HeaderPane"),
     tabs |-> PaneNew("TabsPane"),
     cava |-> PaneNew("CavaPane"),
     frame_count |-> PaneNew("FrameCountPane"),
     others |-> init_other_panes(ctx)]

\* Result::Ok(value)
OkVal(v) == [ok |-> TRUE, val |-> v]

\* Mutant: the lookup puts a newly made pane into the field it borrows.
BorrowedAfresh(self, variant, field) ==
    [self |-> [self EXCEPT ![field] = PaneNew(variant)],
     result |-> OkVal([variant |-> variant, ref |-> <<field>>])]

\* Ok(Panes::Variant(&mut self.field)): the handle borrows the field.
Borrowed(self, variant, field) ==
    [self |-> self, result |-> OkVal([variant |-> variant, ref |-> <<field>>])]

\* The arms of get_mut for the static pane types.
StaticArm(self, pane) ==
    CASE pane.tag = "Queue" -> Borrowed(self, "Queue", "queue")
      [] pane.tag = "Logs" -> Borrowed(self, "Logs", "logs")
      [] pane.tag = "Directories" -> Borrowed(self, "Directories", "directories")
      [] pane.tag = "Artists" -> Borrowed(self, "Artists", "artists")
      [] pane.tag = "AlbumArtists" -> Borrowed(self, "AlbumArtists", "album_artists")
      [] pane.tag = "Albums" -> Borrowed(self, "Albums", "albums")
      [] pane.tag = "Playlists" -> Borrowed(self, "Playlists", "playlists")
      [] pane.tag = "Search" -> Borrowed(self, "Search", "search")
      [] pane.tag = "AlbumArt" -> Borrowed(self, "AlbumArt", "album_art")
      [] pane.tag = "Lyrics" -> Borrowed(self, "Lyrics", "lyrics")
      [] pane.tag = "ProgressBar" -> Borrowed(self, "ProgressBar", "progress_bar")
      [] pane.tag = "Header" -> Borrowed(self, "Header", "header")
      [] pane.tag = "Tabs" -> Borrowed(self, "Tabs", "tabs")
      [] pane.tag = "TabContent" ->
            [self |-> self, result |-> OkVal([variant |-> "TabContent"])]
      [] pane.tag = "FrameCount" -> Borrowed(self, "FrameCount", "frame_count")
      [] pane.tag = "Cava" -> Borrowed(self, "Cava", "cava")

\* Mutant: the handle is built for the pane with default parameters and the
\* pane is kept in the others map.
PropertyArmStored(self, pane, ctx) ==
    LET built == PropertyPaneNew(pane.content, "Left", 0, ctx)
    IN  [self |-> [self EXCEPT !.others = [k \in DOMAIN self.others \cup {pane} |->
                                             IF k = pane THEN built ELSE self.others[k]]],
         result |-> OkVal([variant |-> "Property", pane |-> built])]

\* The Property arm: a new PropertyPane from the key's own parameters.
PropertyArm(self, pane, ctx) ==
    [self |-> self,
     result |-> OkVal([variant |-> "Property",
                       pane |-> PropertyPaneNew(pane.content, pane.align,
                                                pane.scroll_speed, ctx)])]

\* Mutant: a key that is not registered gets a pane made for it on the spot.
BrowserArmCreates(self, pane) ==
    [self |-> [self EXCEPT !.others = [k \in DOMAIN self.others \cup {pane} |->
                  IF k \in DOMAIN self.others THEN self.others[k]
                  ELSE TagBrowserPaneNew(<<"Custom", pane.root_tag>>, pane, pane.separator)]],
     result |-> OkVal([variant |-> "Others", ref |-> <<"others", pane>>])]

\* The Browser arm: self.others.get_mut(pane), an error when it is absent.
BrowserArm(self, pane) ==
    IF pane \in DOMAIN self.others
    THEN [self |-> self, result |-> OkVal([variant |-> "Others", ref |-> <<"others", pane>>])]
    ELSE [self |-> self, result |-> Err([msg |-> "expected pane to be defined", pane |-> pane])]

\* PaneContainer::get_mut: the container afterwards and the Result returned.
get_mut(self, pane, ctx) ==
    CASE pane.tag = "Property" -> PropertyArm(self, pane, ctx)
      [] pane.tag = "Browser" -> BrowserArm(self, pane)
      [] OTHER -> StaticArm(self, pane)

\* The pane a handle refers to: the container's field, the entry of the
\* others map, or the PropertyPane the handle holds; TabContent has none.
Deref(self, h) ==
    CASE h.variant = "Property" -> Some(h.pane)
      [] h.variant = "TabContent" -> None
      [] h.variant = "Others" -> Some(self.others[h.ref[2]])
      [] OTHER -> Some(self[h.ref[1]])

\* Mutant: what a pane operation writes is lost.
WriteThroughNowhere(self, h, v) == self

\* A pane operation called through the handle (pane_call!) writing v into
\* the state of the pane the handle borrows.
WriteThrough(self, h, v) ==
    CASE h.variant = "Property" -> self
      [] h.variant = "TabContent" -> self
      [] h.variant = "Others" -> [self EXCEPT !.others[h.ref[2]].state = v]
      [] OTHER -> [self EXCEPT ![h.ref[1]].state = v]

IsGetMut(e) == e.event = "get_mut"

IsPaneCall(e) == e.event = "pane_call"

\* What is seen of the pane's state through a Result<Panes>.
Seen(self, r) ==
    IF r.ok /\ IsSome(Deref(self, r.val)) THEN Some(Deref(self, r.val).val.state) ELSE None

\* The most get_mut calls of a run.
MaxLookups == 2

\* The pane types looked up: every static type, Browser keys (registered or
\* not, by configuration) and Property keys.
BrowserKeys ==
    {PaneTypeBrowser("genre", None), PaneTypeBrowser("genre", Some(<<";">>)),
     PaneTypeBrowser("composer", None)}

PropertyKeys ==
    {PaneTypeProperty(<<Text(<<"a">>, None, None)>>, "Left", 0),
     PaneTypeProperty(<<Text(<<"a">>, None, None)>>, "Right", 1),
     PaneTypeProperty(<<Property(SongProperty("Title"), None, None)>>, "Left", 1)}

LookupKeys == {PaneType(t) : t \in StaticTags} \cup BrowserKeys \cup PropertyKeys

\* A pane of a tab and a split of a tab into panes and further splits.
TabPane(pane) == [type |-> "Pane", pane |-> [pane |-> pane, borders |-> {}]]

TabSplit(direction, kids) ==
    [type |-> "Split", direction |-> direction, borders |-> {},
     panes |-> [i \in 1..Len(kids) |->
                    [size |-> [unit |-> "percent", n |-> 50], pane |-> kids[i]]]]

\* The configurations the container is built from: no tab; one tab split
\* into two panes; two tabs, one of them with a split inside a split, the
\* same Browser pane in both.
RegistryContexts ==
    {[config |-> [tabs |-> tabs]] :
        tabs \in {<<>>,
                  <<[panes |-> TabSplit("Horizontal",
                        <<TabPane(PaneType("Queue")),
                          TabPane(PaneTypeBrowser("genre", None))>>)]>>,
                  <<[panes |-> TabSplit("Vertical",
                        <<TabPane(PaneTypeProperty(<<Text(<<"a">>, None, None)>>, "Left", 0)),
                          TabSplit("Horizontal",
                            <<TabPane(PaneType("Albums")),
                              TabPane(PaneTypeBrowser("genre", Some(<<";">>)))>>)>>)],
                    [panes |-> TabSplit("Horizontal",
                        <<TabPane(PaneTypeBrowser("composer", None)),
                          TabPane(PaneTypeBrowser("genre", Some(<<";">>)))>>)]>>}}

GetMut ==
    /\ Len(SelectSeq(lookups, IsGetMut)) < MaxLookups
    /\ \E pane \in LookupKeys :
        LET r == get_mut(container, pane, context)
        IN  /\ container' = r.self
            /\ handle' = r.result
            /\ lookups' = Append(lookups,
                    [event |-> "get_mut", pane |-> pane, result |-> r.result,
                     seen |-> Seen(r.self, r.result)])
    /\ UNCHANGED <<context, callVars, layoutVars>>
    /\ UNCHANGED <<song, prop, tag_separator, strategy, op, out>>

\* pane_call!(handle, operation): one operation on the pane of the handle
\* the latest get_mut returned; each operation writes a new value.
PaneCall ==
    /\ lookups # <<>>
    /\ IsGetMut(Last(lookups))
    /\ handle.ok
    /\ LET h == handle.val
           v == Len(SelectSeq(lookups, IsPaneCall)) + 1
       IN  /\ container' = WriteThrough(container, h, v)
           /\ handle' = IF h.variant = "Property"
                        THEN OkVal([h EXCEPT !.pane.state = v])
                        ELSE handle
           /\ lookups' = Append(lookups,
                   [event |-> "pane_call", pane |-> Last(lookups).pane, wrote |-> v])
    /\ UNCHANGED <<context, callVars, layoutVars>>
    /\ UNCHANGED <<song, prop, tag_separator, strategy, op, out>>

RegistryInit ==
    /\ context \in RegistryContexts
    /\ container = new(context)
    /\ handle = Idle
    /\ lookups = <<>>
    /\ song = Idle /\ prop = Idle /\ tag_separator = Idle /\ strategy = Idle
    /\ op = Idle /\ out = Idle
    /\ NoLayout /\ NoCall

RegistryNext == GetMut \/ PaneCall

SpecRegistry == RegistryInit /\ [][RegistryNext]_vars

----------------------------------------------------------------------------
(* Characters: code points, case, UTF-8 width.  A character outside ASCII *)
(* is written by its code point: "U+00E9" is one character.               *)

CharTable ==
    << <<"+", 43>>, <<"-", 45>>, <<".", 46>>, <<"/", 47>>,
       <<"0", 48>>, <<"1", 49>>, <<"2", 50>>, <<"3", 51>>, <<"4", 52>>,
       <<"5", 53>>, <<"6", 54>>, <<"7", 55>>, <<"8", 56>>, <<"9", 57>>,
       <<"A", 65>>, <<"B", 66>>, <<"T", 84>>, <<"a", 97>>, <<"b", 98>>, <<"t", 116>>,
       <<"U+00C9", 201>>, <<"U+00E9", 233>>, <<"U+2026", 8230>> >>

\* The code point of a character of the table.
Ord(c) == CharTable[CHOOSE i \in 1..Len(CharTable) : CharTable[i][1] = c][2]

\* char::to_lowercase, on the characters of the model
LowerChar(c) ==
    CASE c = "A" -> "a" [] c = "B" -> "b" [] c = "T" -> "t" [] c = "U+00C9" -> "U+00E9" [] OTHER -> c

\* str::to_lowercase
to_lowercase(s) == [i \in 1..Len(s) |-> LowerChar(s[i])]

\* The number of bytes of the UTF-8 encoding of a character.
Utf8Len(c) == IF Ord(c) < 128 THEN 1 ELSE IF Ord(c) < 2048 THEN 2 ELSE 3

----------------------------------------------------------------------------
(* Song::cmp_by_prop *)

\* Ord::cmp on integers
CmpInt(a, b) == IF a < b THEN "Less" ELSE IF a = b THEN "Equal" ELSE "Greater"

\* Ord::cmp on sequences of integers: lexicographic, a prefix is less.
RECURSIVE CmpSeq(_, _)
CmpSeq(a, b) ==
    IF a = <<>> /\ b = <<>> THEN "Equal"
    ELSE IF a = <<>> THEN "Less"
    ELSE IF b = <<>> THEN "Greater"
    ELSE IF Head(a) # Head(b) THEN CmpInt(Head(a), Head(b))
    ELSE CmpSeq(Tail(a), Tail(b))

\* UniCase::new(a).cmp(&UniCase::new(b)): the case-folded texts compared
\* character by character.
UniCaseCmp(a, b) ==
    CmpSeq([i \in 1..Len(a) |-> Ord(LowerChar(a[i]))], [i \in 1..Len(b) |-> Ord(LowerChar(b[i]))])

MaxI32 == 2147483647

MinI32 == (-MaxI32) - 1

\* The digits of a positive i32 accumulated with checked_mul / checked_add.
RECURSIVE AccumulatePos(_, _)
AccumulatePos(digits, acc) ==
    IF digits = <<>> THEN Some(acc)
    ELSE IF acc > (MaxI32 - DigitVal(Head(digits))) \div 10 THEN None
    ELSE AccumulatePos(Tail(digits), acc * 10 + DigitVal(Head(digits)))

\* The digits of a negative i32 accumulated with checked_mul / checked_sub.
RECURSIVE AccumulateNeg(_, _)
AccumulateNeg(digits, acc) ==
    IF digits = <<>> THEN Some(acc)
    ELSE IF acc < (MinI32 + DigitVal(Head(digits)) + 9) \div 10 THEN None
    ELSE AccumulateNeg(Tail(digits), acc * 10 - DigitVal(Head(digits)))

\* str::parse::<i32>: an optional sign, then one or more decimal digits whose
\* value fits 32 bits; anything else is an error (None here).
parse_i32(s) ==
    LET signed == s # <<>> /\ Head(s) \in {"+", "-"}
        digits == IF signed THEN Tail(s) ELSE s
    IN  IF digits = <<>> \/ \E i \in 1..Len(digits) : ~IsDigit(digits[i]) THEN None
        ELSE IF signed /\ Head(s) = "-" THEN AccumulateNeg(digits, 0)
        ELSE AccumulatePos(digits, 0)

\* Mutant: the values are always compared as text.
TextOnlyCmp(a, b) == UniCaseCmp(a, b)

\* The comparison of two track or disc values: numeric when both parse,
\* UniCase otherwise.
NumericOrTextCmp(a, b) ==
    IF IsSome(parse_i32(a)) /\ IsSome(parse_i32(b))
    THEN CmpInt(parse_i32(a).val, parse_i32(b).val)
    ELSE UniCaseCmp(a, b)

\* The comparison of two values that are both there, by the kind of the arm.
BothCmp(kind, a, b) ==
    CASE kind = "UniCase" -> UniCaseCmp(a, b)
      [] kind = "NumericOrText" -> NumericOrTextCmp(a, b)
      [] kind = "Int" -> CmpInt(a, b)

\* Mutant: the side lacking the value sorts first.
OptionCmpAbsentFirst(a, b, kind) ==
    IF IsSome(a) /\ IsSome(b) THEN BothCmp(kind, a.val, b.val)
    ELSE IF IsSome(b) THEN "Less"
    ELSE IF IsSome(a) THEN "Greater"
    ELSE "Equal"

\* match (a, b) { (Some(a), Some(b)) => cmp, (_, Some(_)) => Greater,
\*                (Some(_), _) => Less, (None, None) => Equal }
OptionCmp(a, b, kind) ==
    IF IsSome(a) /\ IsSome(b) THEN BothCmp(kind, a.val, b.val)
    ELSE IF IsSome(b) THEN "Greater"
    ELSE IF IsSome(a) THEN "Less"
    ELSE "Equal"

\* self.metadata.get(key).map(|v| v.join(""))
Joined(s, key) ==
    LET v == MapGet(s.metadata, key)
    IN  IF IsSome(v) THEN Some(Join(v.val, <<>>)) ELSE None

cmp_by_prop(self, other, property) ==
    CASE property.tag = "Filename" -> OptionCmp(file_name(self), file_name(other), "UniCase")
      [] property.tag = "FileExtension" -> OptionCmp(file_ext(self), file_ext(other), "UniCase")
      [] property.tag = "File" -> UniCaseCmp(self.file, other.file)
      [] property.tag = "Title" -> OptionCmp(Joined(self, "title"), Joined(other, "title"), "UniCase")
      [] property.tag = "Artist" -> OptionCmp(Joined(self, "artist"), Joined(other, "artist"), "UniCase")
      [] property.tag = "Album" -> OptionCmp(Joined(self, "album"), Joined(other, "album"), "UniCase")
      [] property.tag = "Track" ->
            OptionCmp(Joined(self, "track"), Joined(other, "track"), "NumericOrText")
      [] property.tag = "Disc" ->
            OptionCmp(Joined(self, "disc"), Joined(other, "disc"), "NumericOrText")
      [] property.tag = "Other" ->
            OptionCmp(Joined(self, property.name), Joined(other, property.name), "UniCase")
      [] property.tag = "Duration" -> OptionCmp(self.duration, other.duration, "Int")

\* The songs compared: one without any field, the others with every tag
\* holding the same values.
Tagged(file, duration, v) ==
    [file |-> file, duration |-> duration, stickers |-> None,
     metadata |-> [title |-> v, artist |-> v, album |-> v, track |-> v, disc |-> v, genre |-> v]]

Untagged(file, duration) ==
    [file |-> file, duration |-> duration, stickers |-> None, metadata |-> [k \in {} |-> <<>>]]

CmpSongs ==
    {Untagged(<<>>, None),
     Untagged(<<"/">>, Some(59)),
     Tagged(<<"a", ".", "B">>, Some(59), << <<"9">> >>),
     Tagged(<<"A", ".", "b">>, Some(123), << <<"1", "0">> >>),
     Tagged(<<"b">>, None, << <<"1">>, <<"0">> >>),
     Tagged(<<"b", ".", "a">>, Some(9), << <<"1", "a">> >>),
     Tagged(<<".", "a">>, Some(123), << <<"1", "A">> >>),
     Tagged(<<"a", "/", "9">>, Some(10), << <<"-", "1">> >>),
     Tagged(<<"a", "/", "1", "0">>, Some(10), << <<"+", "9">> >>),
     Tagged(<<"B">>, Some(59), << <<"2", "1", "4", "7", "4", "8", "3", "6", "4", "8">> >>)}

CmpProperties ==
    {SongProperty(t) : t \in {"Filename", "FileExtension", "File", "Title", "Artist",
                              "Album", "Track", "Disc", "Duration"}}
    \cup {[cls |-> "Song", tag |-> "Other", name |-> n] : n \in {"genre", "mood"}}

\* Three songs and a property to order them by.
CmpInit ==
    /\ \E a \in CmpSongs, b \in CmpSongs, c \in CmpSongs, p \in CmpProperties :
          call = [fn |-> "cmp_by_prop", songs |-> <<a, b, c>>, property |-> p]
    /\ retval = None
    /\ NoFormat /\ NoLayout /\ NoRegistry

\* cmp_by_prop applied to every ordered pair of the three songs, as a sort
\* by the property does.
CmpByProp ==
    /\ call.fn = "cmp_by_prop"
    /\ retval = None
    /\ retval' = Some([i \in 1..3 |-> [j \in 1..3 |->
                        cmp_by_prop(call.songs[i], call.songs[j], call.property)]])
    /\ UNCHANGED <<call, formatVars, layoutVars, registryVars>>

CmpNext == CmpByProp

SpecCmp == CmpInit /\ [][CmpNext]_vars

----------------------------------------------------------------------------
(* StringExt::ellipsize (the same body for Cow<str>, &str and String) *)

\* usize::saturating_sub
saturating_sub(a, b) == IF a > b THEN a - b ELSE 0

\* Iterator::take(n).collect::<String>() over the characters
take(s, n) == IF n >= Len(s) THEN s ELSE SubSeq(s, 1, n)

\* str::len: the length in bytes
RECURSIVE ByteLen(_)
ByteLen(s) == IF s = <<>> THEN 0 ELSE Utf8Len(Head(s)) + ByteLen(Tail(s))

\* Mutant: the length is counted in bytes.
ellipsizeBytes(self, max_len, symbols) ==
    IF ByteLen(self) > max_len
    THEN [cow |-> "Owned",
          text |-> take(self, saturating_sub(max_len, Len(symbols.ellipsis)))
                   \o symbols.ellipsis]
    ELSE [cow |-> "Borrowed", text |-> self]

\* self.chars().count() is Len(self): a text is its sequence of characters.
ellipsize(self, max_len, symbols) ==
    IF Len(self) > max_len
    THEN [cow |-> "Owned",
          text |-> take(self, saturating_sub(max_len, Len(symbols.ellipsis)))
                   \o symbols.ellipsis]
    ELSE [cow |-> "Borrowed", text |-> self]

\* The longest text ellipsized.
MaxTextLen == 3

\* The largest max_len.
MaxWidth == 4

EllipsizeTexts == SeqsUpTo({"a", "U+00E9"}, MaxTextLen)

Ellipses == {<<>>, <<"U+2026">>, <<".", ".", ".">>}

EllipsizeInit ==
    /\ \E t \in EllipsizeTexts, n \in 0..MaxWidth, e \in Ellipses,
          impl \in {"Cow<str>", "&str", "String"} :
          call = [fn |-> "ellipsize", impl |-> impl, self |-> t, max_len |-> n,
                  symbols |-> [ellipsis |-> e]]
    /\ retval = None
    /\ NoFormat /\ NoLayout /\ NoRegistry

Ellipsize ==
    /\ call.fn = "ellipsize"
    /\ retval = None
    /\ retval' = Some(ellipsize(call.self, call.max_len, call.symbols))
    /\ UNCHANGED <<call, formatVars, layoutVars, registryVars>>

EllipsizeNext == Ellipsize

SpecEllipsize == EllipsizeInit /\ [][EllipsizeNext]_vars

----------------------------------------------------------------------------
(* Song::matches *)

\* str::contains
Contains(haystack, needle) ==
    \E i \in 0..(Len(haystack) - Len(needle)) :
        SubSeq(haystack, i + 1, i + Len(needle)) = needle

\* value.to_lowercase().contains(&filter.to_lowercase())
ContainsLower(value, filter) == Contains(to_lowercase(value), to_lowercase(filter))

RECURSIVE matches(_, _, _)

\* The Sticker arm: the sticker's value, or else the default matched alone.
StickerMatch(self, fmt, filter) ==
    LET sticker == IF IsSome(self.stickers) THEN MapGet(self.stickers.val, fmt.key) ELSE None
    IN  IF IsSome(sticker) THEN Some(ContainsLower(sticker.val, filter))
        ELSE IF IsSome(fmt.default) THEN Some(matches(self, <<fmt.default.val>>, filter))
        ELSE None

\* The Property arm: the formatted value, or else the default matched alone.
PropertyMatch(self, fmt, filter) ==
    LET p == format(self, fmt.prop, <<>>, "All")
    IN  IF IsSome(p) THEN Some(ContainsLower(p.val, filter))
        ELSE IF IsSome(fmt.default) THEN Some(matches(self, <<fmt.default.val>>, filter))
        ELSE None

\* The Group arm: as_string of the group.
GroupMatch(self, fmt, filter) ==
    LET v == as_string(fmt, Some(self), <<>>, "All")
    IN  IF IsSome(v) THEN Some(ContainsLower(v.val, filter)) ELSE None

\* let match_found = match &format.kind { .. }
MatchFound(self, fmt, filter) ==
    CASE fmt.kind = "Text" -> Some(ContainsLower(fmt.text, filter))
      [] fmt.kind = "Sticker" -> StickerMatch(self, fmt, filter)
      [] fmt.kind = "Property" -> PropertyMatch(self, fmt, filter)
      [] fmt.kind = "Group" -> GroupMatch(self, fmt, filter)

\* for format in formats { .. if match_found.is_some_and(|v| v) { return true } } false
matches(self, formats, filter) ==
    IF formats = <<>> THEN FALSE
    ELSE IF MatchFound(self, Head(formats), filter) = Some(TRUE) THEN TRUE
    ELSE matches(self, Tail(formats), filter)

\* The most formats handed to matches.
MaxFormats == 2

MatchSongs == {SongTitled, SongFull, SongBare}

MatchSpecs ==
    {Text(<<"a", "T">>, None, None),
     Property(SongProperty("Title"), None, None),
     Property(SongProperty("Track"), None, Some(Fallback)),
     Property(SongProperty("Track"), None, Some(Sticker("k", None, Some(Fallback)))),
     Sticker("k", None, None),
     Sticker("k", None, Some(Fallback)),
     Group(<<Property(SongProperty("Title"), None, None), Text(<<"a">>, None, None)>>,
           None, Some(Fallback)),
     Group(<<Property(SongProperty("Track"), None, None), Text(<<"b">>, None, None)>>,
           None, None),
     Group(<<Sticker("k", None, Some(Fallback)), Text(<<"a">>, None, None)>>, None, None)}

Filters ==
    {<<>>, <<"t">>, <<"T">>, <<"f">>, <<"F">>, <<"s">>, <<"t", "u">>, <<"T", "A">>, <<"z">>}

MatchesInit ==
    /\ \E s \in MatchSongs, fs \in SeqsUpTo(MatchSpecs, MaxFormats), f \in Filters :
          call = [fn |-> "matches", self |-> s, formats |-> fs, filter |-> f]
    /\ retval = None
    /\ NoFormat /\ NoLayout /\ NoRegistry

Matches ==
    /\ call.fn = "matches"
    /\ retval = None
    /\ retval' = Some(matches(call.self, call.formats, call.filter))
    /\ UNCHANGED <<call, formatVars, layoutVars, registryVars>>

MatchesNext == Matches

SpecMatches == MatchesInit /\ [][MatchesNext]_vars

----------------------------------------------------------------------------
(* trait Pane: the methods with a default body *)

\* What a method with &mut self returns and leaves in the pane.
Outcome(self, result) == [self |-> self, result |-> result]

on_hide(self, ctx) == Outcome(self, Ok)

before_show(self, ctx) == Outcome(self, Ok)

\* Mutant: an event for a pane that is not visible resets the pane.
on_event_resets_hidden(self, event, is_visible, ctx) ==
    IF is_visible THEN Outcome(self, Ok) ELSE Outcome([self EXCEPT !.state = 0], Ok)

on_event(self, event, is_visible, ctx) == Outcome(self, Ok)

handle_mouse_event(self, event, ctx) == Outcome(self, Ok)

on_query_finished(self, id, data, is_visible, ctx) == Outcome(self, Ok)

calculate_areas(self, rect, ctx) == Outcome(self, Ok)

resize(self, rect, ctx) == Outcome(self, Ok)

\* The methods of the trait that have a default body; render and
\* handle_action have none.
DefaultMethods ==
    {"on_hide", "before_show", "on_event", "handle_mouse_event", "on_query_finished",
     "calculate_areas", "resize"}

\* The default body of the method named, applied to the arguments it takes.
CallDefault(method, self, args, ctx) ==
    CASE method = "on_hide" -> on_hide(self, ctx)
      [] method = "before_show" -> before_show(self, ctx)
      [] method = "on_event" -> on_event(self, args.event, args.is_visible, ctx)
      [] method = "handle_mouse_event" -> handle_mouse_event(self, args.event, ctx)
      [] method = "on_query_finished" ->
            on_query_finished(self, args.id, args.data, args.is_visible, ctx)
      [] method = "calculate_areas" -> calculate_areas(self, args.area, ctx)
      [] method = "resize" -> resize(self, args.area, ctx)

\* The panes the defaults are called on: panes as constructed and panes
\* some operation has written to.
DefaultPanes ==
    {[PaneNew(k) EXCEPT !.state = s] : k \in {"QueuePane", "LyricsPane", "CavaPane"},
                                      s \in 0..1}
    \cup {[TagBrowserPaneNew(<<"Artist">>, PaneType("Artists"), None) EXCEPT !.state = s] :
            s \in 0..1}

DefaultArgs ==
    [event : {"UiEvent::Database", "MouseEvent::LeftClick"}, is_visible : BOOLEAN,
     id : {"q"}, data : {"MpdQueryResult::Any"}, area : Areas]

PaneInit ==
    /\ \E method \in DefaultMethods, p \in DefaultPanes, a \in DefaultArgs :
          call = [fn |-> method, self |-> p, args |-> a]
    /\ context \in Contexts
    /\ retval = None
    /\ song = Idle /\ prop = Idle /\ tag_separator = Idle /\ strategy = Idle
    /\ op = Idle /\ out = Idle
    /\ NoLayout /\ NoRegistry

\* A call of one of the methods on a pane that does not override it.
PaneDefaultCall ==
    /\ call.fn \in DefaultMethods
    /\ retval = None
    /\ retval' = Some(CallDefault(call.fn, call.self, call.args, context))
    /\ UNCHANGED <<call, formatVars, layoutVars, registryVars>>

PaneNext == PaneDefaultCall

SpecPane == PaneInit /\ [][PaneNext]_vars

----------------------------------------------------------------------------
(* Song::as_line_ellipsized *)

\* str::lines(): the text between line breaks, without a last empty line.
RECURSIVE Lines(_)
Lines(s) ==
    IF s = <<>> THEN <<>>
    ELSE LET at == {i \in 1..Len(s) : s[i] = "\n"}
         IN  IF at = {} THEN <<s>>
             ELSE LET i == CHOOSE i \in at : \A j \in at : i <= j
                  IN  <<SubSeq(s, 1, i - 1)>> \o Lines(SubSeq(s, i + 1, Len(s)))

\* Line::styled(content, style): one unstyled span per line of the content,
\* the style being that of the line.
LineStyled(content, style) ==
    [spans |-> [k \in 1..Len(Lines(content)) |-> Span(Lines(content)[k], DefaultStyle)],
     style |-> style]

RECURSIVE as_line_ellipsized(_, _, _, _, _, _)

\* Mutant: the default of a property without a value is not consulted.
default_as_line_ellipsized_none(self, fmt, max_len, symbols, separator, strat) == None

default_as_line_ellipsized(self, fmt, max_len, symbols, separator, strat) ==
    IF IsSome(fmt.default)
    THEN as_line_ellipsized(self, fmt.default.val, max_len, symbols, separator, strat)
    ELSE None

TextAsLine(self, fmt, max_len, symbols) ==
    Some(LineStyled(ellipsize(fmt.text, max_len, symbols).text, StyleOf(fmt)))

\* self.stickers.as_ref().and_then(|stickers| stickers.get(key)).map(..).or_else(..)
StickerAsLine(self, fmt, max_len, symbols, separator, strat) ==
    LET sticker == IF IsSome(self.stickers) THEN MapGet(self.stickers.val, fmt.key) ELSE None
    IN  IF IsSome(sticker)
        THEN Some(LineStyled(ellipsize(sticker.val, max_len, symbols).text, StyleOf(fmt)))
        ELSE IF IsSome(fmt.default)
        THEN as_line_ellipsized(self, fmt.default.val, max_len, symbols, separator, strat)
        ELSE None

PropertyAsLine(self, fmt, max_len, symbols, separator, strat) ==
    LET v == format(self, fmt.prop, separator, strat)
    IN  IF IsSome(v)
        THEN Some(LineStyled(ellipsize(v.val, max_len, symbols).text, StyleOf(fmt)))
        ELSE default_as_line_ellipsized(self, fmt, max_len, symbols, separator, strat)

\* span.style(res.style).patch_style(span_style) for every span of res
Restyled(res) ==
    [k \in 1..Len(res.spans) |->
        Span(res.spans[k].content, PatchStyle(res.style, res.spans[k].style))]

\* The loop over the members of a group, from member i on, with buf so far.
RECURSIVE GroupLoopAsLine(_, _, _, _, _, _, _, _)
GroupLoopAsLine(self, fmt, i, buf, max_len, symbols, separator, strat) ==
    IF i > Len(fmt.group) THEN Some(buf)
    ELSE LET res == as_line_ellipsized(self, fmt.group[i], max_len, symbols, separator, strat)
         IN  IF IsSome(res)
             THEN GroupLoopAsLine(self, fmt, i + 1,
                                  [buf EXCEPT !.spans = @ \o Restyled(res.val)],
                                  max_len, symbols, separator, strat)
             ELSE IF IsSome(fmt.default)
             THEN as_line_ellipsized(self, fmt.default.val, max_len, symbols, separator, strat)
             ELSE None

\* let mut buf = Line::default().style(style);
GroupAsLine(self, fmt, max_len, symbols, separator, strat) ==
    GroupLoopAsLine(self, fmt, 1, [spans |-> <<>>, style |-> StyleOf(fmt)],
                    max_len, symbols, separator, strat)

as_line_ellipsized(self, fmt, max_len, symbols, separator, strat) ==
    CASE fmt.kind = "Text" -> TextAsLine(self, fmt, max_len, symbols)
      [] fmt.kind = "Sticker" -> StickerAsLine(self, fmt, max_len, symbols, separator, strat)
      [] fmt.kind = "Property" -> PropertyAsLine(self, fmt, max_len, symbols, separator, strat)
      [] fmt.kind = "Group" -> GroupAsLine(self, fmt, max_len, symbols, separator, strat)

\* The nodes a line is made of: literals, one of them of two lines, song
\* properties with and without a default, stickers.
LineAtoms ==
    {Text(<<"a", "b">>, None, None), Text(<<"a", "\n", "b">>, Some(Green), None),
     Property(SongProperty("Title"), Some(Green), None)}
    \cup {Property(SongProperty("Track"), None, d) : d \in DefaultOpts}
    \cup {Sticker("k", None, d) : d \in DefaultOpts}

LineInnerGroups ==
    {Group(<<Text(<<"b">>, Some(Green), None)>>, Some(Red), None),
     Group(<<Property(SongProperty("Track"), None, None)>>, None,
           Some(Text(<<"g">>, None, None)))}

LineFormats ==
    LineAtoms \cup
    {Group(g, s, d) : g \in SeqsUpTo(LineAtoms \cup LineInnerGroups, MaxGroupLen),
                      s \in {None, Some(Red)}, d \in DefaultOpts}

LineInit ==
    /\ \E s \in Songs \ {None}, f \in LineFormats, n \in {1, MaxWidth},
          e \in {<<"U+2026">>, <<".", ".", ".">>}, r \in Resolutions :
          call = [fn |-> "as_line_ellipsized", self |-> s.val, format |-> f, max_len |-> n,
                  symbols |-> [ellipsis |-> e], tag_separator |-> r.separator,
                  strategy |-> r.strategy]
    /\ retval = None
    /\ NoFormat /\ NoLayout /\ NoRegistry

AsLineEllipsized ==
    /\ call.fn = "as_line_ellipsized"
    /\ retval = None
    /\ retval' = Some(as_line_ellipsized(call.self, call.format, call.max_len, call.symbols,
                                         call.tag_separator, call.strategy))
    /\ UNCHANGED <<call, formatVars, layoutVars, registryVars>>

LineNext == AsLineEllipsized

SpecLine == LineInit /\ [][LineNext]_vars

----------------------------------------------------------------------------
(* Everything together *)

Init == FormatInit \/ LayoutInit \/ RegistryInit \/ CmpInit
        \/ EllipsizeInit \/ MatchesInit \/ PaneInit
        \/ LineInit

Next == AsString \/ AsSpan \/ VisitPane \/ VisitSplit \/ Return \/ GetMut \/ PaneCall
        \/ CmpByProp \/ Ellipsize \/ Matches \/ PaneDefaultCall
        \/ AsLineEllipsized

Spec == Init /\ [][Next]_vars

----------------------------------------------------------------------------
(* Claims about property resolution *)

MemberStrings(g) ==
    [i \in 1..Len(g.group) |-> as_string(g.group[i], song, tag_separator, strategy)]

AllMembersResolve(g) == \A i \in 1..Len(g.group) : IsSome(MemberStrings(g)[i])

WithoutDefault(f) == [f EXCEPT !.default = None]

\* The groups of the specification being resolved: itself and its members.
GroupsOf(f) ==
    IF f.kind # "Group" THEN {}
    ELSE {f} \cup {f.group[i] : i \in {j \in 1..Len(f.group) : f.group[j].kind = "Group"}}

\* C1: as_string of a group whose members all resolve is Some of the members'
\* texts concatenated in declared order, whatever the group's default is.
C1_GroupResolved ==
    (op = "as_string" /\ prop.kind = "Group") =>
        /\ AllMembersResolve(prop) =>
              /\ out = Some(Concat([i \in 1..Len(prop.group) |-> MemberStrings(prop)[i].val]))
              /\ out = as_string(WithoutDefault(prop), song, tag_separator, strategy)
        /\ \A g \in GroupsOf(prop) :
              AllMembersResolve(g) =>
                  as_string(g, song, tag_separator, strategy)
                      = Some(Concat([i \in 1..Len(g.group) |-> MemberStrings(g)[i].val]))

\* C1 witness: a group of two resolving members whose default would have
\* given another text.
C1_Witness ==
    /\ op = "as_string" /\ prop.kind = "Group" /\ Len(prop.group) = 2
    /\ prop.group[1].kind = "Property" /\ prop.group[2].kind = "Text"
    /\ AllMembersResolve(prop)
    /\ IsSome(prop.default)
    /\ out = Some(<<"t", "a">>)
    /\ as_string(prop.default.val, song, tag_separator, strategy) = Some(<<"f">>)

\* C2: as_string of a group with a member that does not resolve is the
\* as_string of the group's default, None when it has none.
C2_GroupCollapses ==
    (op = "as_string" /\ prop.kind = "Group" /\ ~AllMembersResolve(prop)) =>
        out = IF IsSome(prop.default)
              THEN as_string(prop.default.val, song, tag_separator, strategy)
              ELSE None

\* C2 witness: the first member resolved to a text, the second did not, and
\* the result is the default's text alone.
C2_Witness ==
    /\ op = "as_string" /\ prop.kind = "Group" /\ Len(prop.group) = 2
    /\ MemberStrings(prop)[1] = Some(<<"a">>)
    /\ ~IsSome(MemberStrings(prop)[2])
    /\ IsSome(prop.default)
    /\ out = Some(<<"f">>)

C2_WitnessNoDefault ==
    /\ op = "as_string" /\ prop.kind = "Group" /\ Len(prop.group) = 2
    /\ MemberStrings(prop)[1] = Some(<<"a">>)
    /\ ~IsSome(MemberStrings(prop)[2])
    /\ ~IsSome(prop.default)
    /\ out = None

MemberSpans(g) ==
    [i \in 1..Len(g.group) |-> as_span(g.group[i], song, context, tag_separator, strategy)]

\* C3: as_span of a group with a member that does not resolve is the as_span
\* of the group's default, None when it has none.
C3_GroupSpanCollapses ==
    (op = "as_span" /\ prop.kind = "Group"
        /\ \E i \in 1..Len(prop.group) : ~IsSome(MemberSpans(prop)[i])) =>
        out = IF IsSome(prop.default)
              THEN as_span(prop.default.val, song, context, tag_separator, strategy)
              ELSE None

\* C4: a Text node resolves to its own text in as_string and in as_span.
C4_TextUnconditional ==
    /\ (op = "as_string" /\ prop.kind = "Text") => out = Some(prop.text)
    /\ (op = "as_span" /\ prop.kind = "Text") =>
            out = Some(Left(Span(prop.text, StyleOf(prop))))

\* C4 witness: a Text node with a default of another text, resolved.
C4_Witness ==
    /\ op \in {"as_string", "as_span"} /\ prop.kind = "Text"
    /\ IsSome(prop.default) /\ prop.default.val.text # prop.text
    /\ IsSome(out)

StickerOf(s, key) ==
    IF IsSome(s) /\ IsSome(s.val.stickers) THEN MapGet(s.val.stickers.val, key) ELSE None

\* C5: as_string of a Sticker node, for a song that lacks the key, is the
\* as_string of the node's default, None when it has none.
C5_StickerFallsThrough ==
    (op = "as_string" /\ prop.kind = "Sticker" /\ IsSome(song)
        /\ ~IsSome(StickerOf(song, prop.key))) =>
        out = IF IsSome(prop.default)
              THEN as_string(prop.default.val, song, tag_separator, strategy)
              ELSE None

\* The value a group member counts with: its resolution without its default
\* and, when that fails, the resolution of its default.
MemberValue(m) ==
    LET primary == as_string(WithoutDefault(m), song, tag_separator, strategy)
    IN  IF IsSome(primary) THEN primary
        ELSE IF IsSome(m.default)
             THEN as_string(m.default.val, song, tag_separator, strategy)
             ELSE None

\* C6: a group whose members each resolve, by themselves or by their own
\* default, resolves to the concatenation of those values.
C6_MemberDefaultCounts ==
    (op = "as_string" /\ prop.kind = "Group"
        /\ \A i \in 1..Len(prop.group) : IsSome(MemberValue(prop.group[i]))) =>
        out = Some(Concat([i \in 1..Len(prop.group) |-> MemberValue(prop.group[i]).val]))

----------------------------------------------------------------------------
(* Claims about the layout traversal *)

RECURSIVE NodePaths(_)
NodePaths(t) ==
    {<<>>} \cup
    IF t.type = "Split"
    THEN UNION {{<<i>> \o q : q \in NodePaths(t.panes[i].pane)} : i \in 1..Len(t.panes)}
    ELSE {}

CallsFor(path) == {k \in 1..Len(calls) : calls[k].path = path}

ReturnedOk == ret.done /\ ret.result.ok

ReturnedErr == ret.done /\ ~ret.result.ok

\* C7: when the traversal returns Ok, every node of the tree has had exactly
\* one callback, the pane callback for a Pane and the split callback for a
\* Split; no node ever has more than one.
C7_EveryNodeOnce ==
    /\ \A k \in 1..Len(calls) :
          /\ calls[k].path \in NodePaths(panes)
          /\ Cardinality(CallsFor(calls[k].path)) = 1
          /\ calls[k].callback =
                IF NodeAt(panes, calls[k].path).type = "Pane" THEN "pane" ELSE "split"
    /\ ReturnedOk => \A q \in NodePaths(panes) : Cardinality(CallsFor(q)) = 1

\* C7 witness: a finished traversal of a tree of four nodes, one of them a
\* split without children.
C7_Witness ==
    /\ ReturnedOk
    /\ entry = "for_each_pane_custom_data"
    /\ Len(calls) = 4
    /\ \E k \in 1..4 : /\ calls[k].callback = "split"
                       /\ calls[k].path # <<>>
                       /\ Len(NodeAt(panes, calls[k].path).panes) = 0
    /\ \E k \in 1..4 : calls[k].callback = "pane"

\* Path a lies in the subtree of an earlier declared sibling than path b.
EarlierSibling(a, b) ==
    \E d \in 1..Min(Len(a), Len(b)) :
        /\ SubSeq(a, 1, d - 1) = SubSeq(b, 1, d - 1)
        /\ a[d] < b[d]

\* C8 as stated: every callback for the subtree of an earlier declared child
\* comes before every callback for the subtree of a later declared sibling.
C8_DeclaredOrder ==
    \A ka, kb \in 1..Len(calls) :
        EarlierSibling(calls[ka].path, calls[kb].path) => ka < kb

\* C8 as amended: the children of a split are visited last declared first:
\* every callback for the subtree of a later declared child comes before
\* every callback for the subtree of an earlier declared sibling.
C8_ReverseDeclaredOrder ==
    \A ka, kb \in 1..Len(calls) :
        EarlierSibling(calls[ka].path, calls[kb].path) => kb < ka

\* C8 witness: a finished traversal in which two siblings were visited, one
\* of them with a node below it.
C8_Witness ==
    /\ ReturnedOk
    /\ \E ka, kb \in 1..Len(calls) :
          /\ EarlierSibling(calls[ka].path, calls[kb].path)
          /\ Len(calls[ka].path) = 2
          /\ Len(calls[kb].path) = 1

\* C9: a callback that returned an error is the last callback invoked, and
\* its error is what the traversal returned; the traversal returns an error
\* only so.
C9_FirstErrorEnds ==
    /\ \A k \in 1..Len(calls) :
          ~calls[k].result.ok => k = Len(calls) /\ ret = Returned(calls[k].result)
    /\ ReturnedErr => Len(calls) > 0 /\ ret.result = calls[Len(calls)].result

\* C9 witness: the callback of a split with children failed while another
\* node was still on the stack.
C9_Witness ==
    /\ ReturnedErr
    /\ stack # <<>>
    /\ calls[Len(calls)].callback = "split"
    /\ Len(NodeAt(panes, calls[Len(calls)].path).panes) > 0

\* C9: for_each_pane returns the error of the pane callback.
C9_WitnessForEachPane ==
    /\ ReturnedErr
    /\ entry = "for_each_pane"
    /\ stack # <<>>
    /\ calls[Len(calls)].callback = "pane"

\* The Rect the traversal holds for the node at a path: on the stack, or
\* handed to the node's callback.
AreaOf(path) ==
    IF \E i \in 1..Len(stack) : stack[i].path = path
    THEN stack[CHOOSE i \in 1..Len(stack) : stack[i].path = path].area
    ELSE calls[CHOOSE k \in 1..Len(calls) : calls[k].path = path].area

ChildAreas(path) ==
    [i \in 1..Len(NodeAt(panes, path).panes) |-> AreaOf(Append(path, i))]

IsEmptyRect(r) == r.width = 0 \/ r.height = 0

\* The rects lie one after the other along the direction, from where the
\* inner area starts to where it ends, and span it across.
Partitions(direction, inner, rects) ==
    LET n == Len(rects)
        pos(r) == IF direction = "Horizontal" THEN r.x ELSE r.y
        len(r) == IF direction = "Horizontal" THEN r.width ELSE r.height
    IN  IF n = 0 THEN IsEmptyRect(inner)
        ELSE /\ \A i \in 1..n :
                    /\ len(rects[i]) >= 0
                    /\ IF direction = "Horizontal"
                       THEN rects[i].y = inner.y /\ rects[i].height = inner.height
                       ELSE rects[i].x = inner.x /\ rects[i].width = inner.width
             /\ pos(rects[1]) = pos(inner)
             /\ \A i \in 1..(n - 1) : pos(rects[i + 1]) = pos(rects[i]) + len(rects[i])
             /\ pos(rects[n]) + len(rects[n]) = pos(inner) + len(inner)

SplitCalls == {k \in 1..Len(calls) : calls[k].callback = "split" /\ calls[k].result.ok}

\* C10 as stated: the children of every split partition its inner area.
C10_ChildrenPartition ==
    \A k \in SplitCalls :
        LET node == NodeAt(panes, calls[k].path)
        IN  Partitions(node.direction, Inner(node.borders, calls[k].area),
                       ChildAreas(calls[k].path))

EqualHalves(node) ==
    /\ node.direction = "Horizontal" /\ node.borders = {} /\ Len(node.panes) = 2
    /\ node.panes[1].size = node.panes[2].size

\* C10 as amended: the children of every split that has children partition
\* its inner area, in declared order; two equal children of a horizontal
\* split without borders over 100x10 get 50x10 each, the first on the left.
C10_ChildrenPartitionNonEmpty ==
    \A k \in SplitCalls :
        LET node == NodeAt(panes, calls[k].path)
        IN  /\ Len(node.panes) > 0 =>
                  Partitions(node.direction, Inner(node.borders, calls[k].area),
                             ChildAreas(calls[k].path))
            /\ (EqualHalves(node) /\ calls[k].area = Rect(0, 0, 100, 10)) =>
                  ChildAreas(calls[k].path) = <<Rect(0, 0, 50, 10), Rect(50, 0, 50, 10)>>

\* C10 witness: the scenario, both children visited.
C10_Witness ==
    /\ ReturnedOk
    /\ Len(calls) = 3
    /\ calls[1].callback = "split" /\ calls[1].area = Rect(0, 0, 100, 10)
    /\ EqualHalves(NodeAt(panes, <<>>))
    /\ calls[2].path = <<2>> /\ calls[2].area = Rect(50, 0, 50, 10)
    /\ calls[3].path = <<1>> /\ calls[3].area = Rect(0, 0, 50, 10)

----------------------------------------------------------------------------
(* Claims about the pane registry *)

GetMuts == {i \in DOMAIN lookups : IsGetMut(lookups[i])}

IsStatic(pane) == pane.tag \in StaticTags

\* The value the latest pane operation before event i wrote through a handle
\* looked up with the key pane; 0, the state after construction, if none did.
LastWritten(i, pane) ==
    LET ws == {k \in 1..(i - 1) : IsPaneCall(lookups[k]) /\ lookups[k].pane = pane}
    IN  IF ws = {} THEN 0
        ELSE lookups[CHOOSE k \in ws : \A l \in ws : l <= k].wrote

HasRef(i) == lookups[i].result.ok /\ lookups[i].result.val.variant \notin {"TabContent", "Property"}

\* C11: get_mut of a static pane type always succeeds; it returns the same
\* handle as every earlier get_mut of that type, what was last written through
\* a handle of that type is what the next handle of that type shows, and two
\* different static pane types never borrow the same instance.
C11_StaticLookupStable ==
    \A i \in GetMuts :
        IsStatic(lookups[i].pane) =>
            /\ lookups[i].result.ok
            /\ \A j \in GetMuts :
                  (j < i /\ lookups[j].pane = lookups[i].pane)
                      => lookups[j].result = lookups[i].result
            /\ lookups[i].pane.tag # "TabContent"
                  => lookups[i].seen = Some(LastWritten(i, lookups[i].pane))
            /\ \A j \in GetMuts :
                  (/\ IsStatic(lookups[j].pane)
                   /\ lookups[j].pane # lookups[i].pane
                   /\ HasRef(i) /\ HasRef(j))
                      => lookups[j].result.val.ref # lookups[i].result.val.ref

\* A static pane type has been looked up, written through, and looked up
\* again, the second handle showing what was written.
C11_Witness ==
    /\ Len(lookups) = 3
    /\ IsGetMut(lookups[1]) /\ IsPaneCall(lookups[2]) /\ IsGetMut(lookups[3])
    /\ lookups[1].pane = PaneType("AlbumArtists")
    /\ lookups[3].pane = PaneType("AlbumArtists")
    /\ lookups[3].seen = Some(1)

\* A write through the Artists handle followed by a lookup of AlbumArtists.
C11_WitnessOtherType ==
    /\ Len(lookups) = 3
    /\ IsGetMut(lookups[1]) /\ IsPaneCall(lookups[2]) /\ IsGetMut(lookups[3])
    /\ lookups[1].pane = PaneType("Artists")
    /\ lookups[3].pane = PaneType("AlbumArtists")
    /\ lookups[3].seen = Some(0)

\* C12: get_mut of a Browser key returns an error when the key is not in the
\* others map and a handle to the pane stored under exactly that key when it
\* is; the others map only ever holds the keys it was constructed with.
C12_DynamicLookup ==
    /\ DOMAIN container.others = DOMAIN init_other_panes(context)
    /\ \A i \in GetMuts :
          LET p == lookups[i].pane
              r == lookups[i].result
          IN  p.tag = "Browser" =>
                IF p \in DOMAIN init_other_panes(context)
                THEN /\ r.ok
                     /\ r.val = [variant |-> "Others", ref |-> <<"others", p>>]
                     /\ Deref(container, r.val).val.target_pane = p
                     /\ Deref(container, r.val).val.root_tag = <<"Custom", p.root_tag>>
                     /\ Deref(container, r.val).val.separator = p.separator
                ELSE ~r.ok

\* An unregistered Browser key has been refused and a registered one, with
\* the same root tag, has been found.
C12_Witness ==
    /\ Len(lookups) = 2
    /\ lookups[1].pane = PaneTypeBrowser("genre", None)
    /\ ~lookups[1].result.ok
    /\ lookups[2].pane = PaneTypeBrowser("genre", Some(<<";">>))
    /\ lookups[2].result.ok

\* C20: get_mut of a Property key succeeds whatever the parameters and
\* whatever the configuration; the handle holds a PropertyPane newly built
\* from the key's content, alignment and scroll speed (so it shows none of the
\* state written through an earlier handle), and the lookup stores nothing:
\* the key is not in the others map and the map keeps its keys.
C20_PropertyLookupFresh ==
    \A i \in GetMuts :
        LET p == lookups[i].pane
            r == lookups[i].result
        IN  p.tag = "Property" =>
              /\ r.ok
              /\ r.val.variant = "Property"
              /\ r.val.pane = PropertyPaneNew(p.content, p.align, p.scroll_speed, context)
              /\ lookups[i].seen = Some(0)
              /\ p \notin DOMAIN container.others
              /\ DOMAIN container.others = DOMAIN init_other_panes(context)

\* The same Property key looked up twice with a pane operation in between.
C20_Witness ==
    /\ Len(lookups) = 3
    /\ IsGetMut(lookups[1]) /\ IsPaneCall(lookups[2]) /\ IsGetMut(lookups[3])
    /\ lookups[1].pane = PaneTypeProperty(<<Text(<<"a">>, None, None)>>, "Right", 1)
    /\ lookups[3].pane = lookups[1].pane
    /\ lookups[3].result.ok

----------------------------------------------------------------------------
(* Claims about as_span on unavailable values *)

\* The value a Property node reads is not there: a song property without a
\* song or without the field, bitrate or crossfade unset, scan status while
\* no update is running.
Unavailable(f) ==
    /\ f.kind = "Property"
    /\ CASE f.prop.cls = "Song" ->
              \/ ~IsSome(song)
              \/ ~IsSome(format(song.val, f.prop, tag_separator, strategy))
         [] f.prop.cls = "Status" /\ f.prop.tag = "Bitrate" -> ~IsSome(context.status.bitrate)
         [] f.prop.cls = "Status" /\ f.prop.tag = "Crossfade" -> ~IsSome(context.status.xfade)
         [] f.prop.cls = "Widget" /\ f.prop.tag = "ScanStatus" -> ~IsSome(context.db_update_start)
         [] OTHER -> FALSE

DefaultSpan(f) ==
    IF IsSome(f.default)
    THEN as_span(f.default.val, song, context, tag_separator, strategy)
    ELSE None

\* C19: as_span of a Property node whose value is unavailable returns the
\* as_span of the node's default when it has one and None otherwise.
C19_UnavailableFallsBack ==
    (op = "as_span" /\ Unavailable(prop)) => out = DefaultSpan(prop)

----------------------------------------------------------------------------
(* Claims about Song::cmp_by_prop *)

Reverse(o) == CASE o = "Less" -> "Greater" [] o = "Greater" -> "Less" [] OTHER -> "Equal"

AtMostEqual(o) == o \in {"Less", "Equal"}

\* C13: cmp_by_prop is a total order for every property: the comparison of
\* (b, a) is the reverse of that of (a, b), and a <= b and b <= c give a <= c.
C13_TotalOrder ==
    IsSome(retval) =>
        \A i \in 1..3, j \in 1..3, k \in 1..3 :
            /\ retval.val[j][i] = Reverse(retval.val[i][j])
            /\ (AtMostEqual(retval.val[i][j]) /\ AtMostEqual(retval.val[j][k]))
                  => AtMostEqual(retval.val[i][k])

\* The field of a song a property orders by, as the comparator reads it.
FieldOf(s, property) ==
    CASE property.tag = "Filename" -> file_name(s)
      [] property.tag = "FileExtension" -> file_ext(s)
      [] property.tag = "File" -> Some(s.file)
      [] property.tag = "Duration" -> s.duration
      [] property.tag = "Title" -> Joined(s, "title")
      [] property.tag = "Artist" -> Joined(s, "artist")
      [] property.tag = "Album" -> Joined(s, "album")
      [] property.tag = "Track" -> Joined(s, "track")
      [] property.tag = "Disc" -> Joined(s, "disc")
      [] property.tag = "Other" -> Joined(s, property.name)

Has(i) == IsSome(FieldOf(call.songs[i], call.property))

\* C14: with the field absent on one side only, the song lacking it compares
\* Greater and the song having it Less; with the field absent on both sides
\* the songs compare Equal.
C14_AbsentSortsLast ==
    IsSome(retval) =>
        \A i \in 1..3, j \in 1..3 :
            /\ (~Has(i) /\ Has(j)) => retval.val[i][j] = "Greater"
            /\ (Has(i) /\ ~Has(j)) => retval.val[i][j] = "Less"
            /\ (~Has(i) /\ ~Has(j)) => retval.val[i][j] = "Equal"

\* Songs without a field and songs having it compared by a tag that only the
\* reading of the metadata can miss.
C14_Witness ==
    /\ IsSome(retval)
    /\ call.property.tag = "Other"
    /\ ~Has(1) /\ ~Has(2) /\ Has(3)
    /\ call.songs[1] # call.songs[2]
    /\ retval.val[1][3] = "Greater"
    /\ retval.val[3][1] = "Less"
    /\ retval.val[1][2] = "Equal"

\* C15: on Track and Disc, two values that both parse as i32 are compared as
\* numbers; when either does not parse the two are compared as
\* case-insensitive text; there is always an Ordering.
C15_NumericThenText ==
    (IsSome(retval) /\ call.property.tag \in {"Track", "Disc"}) =>
        \A i \in 1..3, j \in 1..3 :
            (Has(i) /\ Has(j)) =>
                LET a == FieldOf(call.songs[i], call.property).val
                    b == FieldOf(call.songs[j], call.property).val
                    o == retval.val[i][j]
                IN  /\ o \in {"Less", "Equal", "Greater"}
                    /\ (IsSome(parse_i32(a)) /\ IsSome(parse_i32(b)))
                          => o = CmpInt(parse_i32(a).val, parse_i32(b).val)
                    /\ (~IsSome(parse_i32(a)) \/ ~IsSome(parse_i32(b)))
                          => o = UniCaseCmp(a, b)

\* 9 sorts before 10 as a number, and after "1a" as text.
C15_Witness ==
    /\ IsSome(retval)
    /\ call.property.tag = "Track"
    /\ FieldOf(call.songs[1], call.property) = Some(<<"9">>)
    /\ FieldOf(call.songs[2], call.property) = Some(<<"1", "0">>)
    /\ FieldOf(call.songs[3], call.property) = Some(<<"1", "a">>)
    /\ retval.val[1][2] = "Less"
    /\ retval.val[1][3] = "Greater"
    /\ retval.val[2][3] = "Less"

----------------------------------------------------------------------------
(* Claims about ellipsize *)

EndsWith(s, suffix) ==
    /\ Len(suffix) <= Len(s)
    /\ SubSeq(s, Len(s) - Len(suffix) + 1, Len(s)) = suffix

\* C16: a text of more than max_len characters is ellipsized to exactly
\* max_len characters, the last of them the marker.
C16_TruncatedToMaxLen ==
    (IsSome(retval) /\ Len(call.self) > call.max_len) =>
        /\ Len(retval.val.text) = call.max_len
        /\ EndsWith(retval.val.text, call.symbols.ellipsis)

\* C17: a text of at most max_len characters is returned unchanged, borrowed,
\* without the marker, however many bytes it has.
C17_ShortTextUnchanged ==
    (IsSome(retval) /\ Len(call.self) <= call.max_len) =>
        retval.val = [cow |-> "Borrowed", text |-> call.self]

\* A text of exactly max_len characters, more than max_len bytes, and a
\* non-empty marker.
C17_Witness ==
    /\ IsSome(retval)
    /\ Len(call.self) = call.max_len
    /\ ByteLen(call.self) > call.max_len
    /\ call.symbols.ellipsis # <<>>
    /\ retval.val.text = call.self

\* The empty text with max_len 0.
C17_WitnessEmpty ==
    /\ IsSome(retval)
    /\ call.self = <<>>
    /\ call.max_len = 0
    /\ retval.val.text = <<>>

----------------------------------------------------------------------------
(* Claims about Song::matches *)

\* The plain-text resolution of a format matches the filter.
PlainTextMatches(fmt) ==
    LET v == as_string(fmt, Some(call.self), <<>>, "All")
    IN  IsSome(v) /\ ContainsLower(v.val, call.filter)

\* C18: matches returns true exactly when the as_string (empty separator,
\* strategy All) of one of the formats contains the filter, case-insensitively.
C18_MatchesIffPlainText ==
    IsSome(retval) =>
        (retval.val <=> \E i \in 1..Len(call.formats) : PlainTextMatches(call.formats[i]))

----------------------------------------------------------------------------
(* Further claims about the layout traversal *)

\* C22: the k-th callback is handed the custom data as the (k-1)-th left it,
\* the first is handed the caller's value, and the loop holds what the latest
\* callback left.
C22_DataThreads ==
    /\ \A k \in 1..Len(calls) :
          calls[k].data_in = IF k = 1 THEN 0 ELSE calls[k - 1].data_out
    /\ custom_data = IF calls = <<>> THEN 0 ELSE calls[Len(calls)].data_out

\* A split callback and a pane callback have both changed the data, and a
\* later callback has been handed the result.
C22_Witness ==
    /\ entry = "for_each_pane_custom_data"
    /\ Len(calls) >= 3
    /\ calls[1].callback = "split" /\ calls[1].data_out # calls[1].data_in
    /\ calls[2].callback = "pane" /\ calls[2].data_in = calls[1].data_out
    /\ calls[3].data_in = calls[2].data_out

\* The Rect the node at a path is due: the area of the call for the root,
\* the part of its parent's inner area for a child.
RECURSIVE ExpectedArea(_)
ExpectedArea(path) ==
    IF path = <<>> THEN area
    ELSE LET parent == SubSeq(path, 1, Len(path) - 1)
             node == NodeAt(panes, parent)
             outer == ExpectedArea(parent)
             other == IF node.direction = "Horizontal" THEN outer.height ELSE outer.width
         IN  LayoutSplit(node.direction,
                         [i \in 1..Len(node.panes) |-> into_constraint(node.panes[i].size, other)],
                         Inner(node.borders, outer))[path[Len(path)]]

IsProperPrefix(q, p) == Len(q) < Len(p) /\ SubSeq(p, 1, Len(q)) = q

\* C26: every callback is for a node of the tree; a split callback is handed
\* the split's outer rectangle; and before a callback for a node, the split
\* callback of each split above it has been invoked.
C26_SplitBeforeSubtree ==
    \A k \in 1..Len(calls) :
        /\ calls[k].path \in NodePaths(panes)
        /\ calls[k].callback =
              (IF NodeAt(panes, calls[k].path).type = "Split" THEN "split" ELSE "pane")
        /\ calls[k].area = ExpectedArea(calls[k].path)
        /\ \A j \in 1..Len(calls) :
              IsProperPrefix(calls[j].path, calls[k].path)
                  => (j < k /\ calls[j].callback = "split")
        /\ \A n \in 0..(Len(calls[k].path) - 1) :
              \E j \in 1..(k - 1) : calls[j].path = SubSeq(calls[k].path, 1, n)

\* A bordered split inside a split has had its callback, and then a pane
\* inside it.
C26_Witness ==
    \E j \in 1..Len(calls), k \in 1..Len(calls) :
        /\ j < k
        /\ Len(calls[j].path) = 1
        /\ calls[j].callback = "split"
        /\ calls[j].block # {}
        /\ calls[j].area # Inner(calls[j].block, calls[j].area)
        /\ calls[j].path[1] = 2
        /\ calls[k].callback = "pane"
        /\ IsProperPrefix(calls[j].path, calls[k].path)

\* One iteration: one more callback; unless it failed, the stack has lost
\* the node and gained the node's direct children.
IterationStep ==
    /\ Len(calls') = Len(calls) + 1
    /\ (ret'.done => ~ret'.result.ok)
    /\ ((~ret'.done) =>
          Len(stack') = Len(stack) - 1 +
              (LET node == NodeAt(panes, calls'[Len(calls')].path)
               IN  IF node.type = "Split" THEN Len(node.panes) ELSE 0))

\* The return of Ok: on the empty stack, after as many callbacks as the
\* tree has nodes.
ReturnStep ==
    /\ calls' = calls
    /\ stack = <<>>
    /\ stack' = <<>>
    /\ ret'.done
    /\ ret'.result.ok
    /\ Len(calls) = Cardinality(NodePaths(panes))

\* C28: the traversal returns; each iteration takes one node off the stack
\* and puts its direct children on it; with no failing callback it returns Ok
\* after as many iterations as the tree has nodes, on the empty stack.
C28_Terminates == <>(ret.done) /\ [][IterationStep \/ ReturnStep]_vars

\* A traversal of a tree of four nodes has returned Ok after four iterations.
C28_Witness ==
    /\ ReturnedOk
    /\ Cardinality(NodePaths(panes)) = 4
    /\ Len(calls) = 4
    /\ stack = <<>>

----------------------------------------------------------------------------
(* Claims about the Pane trait *)

\* C21: each default method returns Ok and leaves the pane as it was,
\* whatever the arguments, the visibility flag included.
C21_DefaultsAreNoOps ==
    (IsSome(retval) /\ call.fn \in DefaultMethods) =>
        /\ retval.val.result = Ok
        /\ retval.val.self = call.self

\* on_event on a written-to pane that is not visible.
C21_Witness ==
    /\ IsSome(retval)
    /\ call.fn = "on_event"
    /\ ~call.args.is_visible
    /\ call.self.state = 1
    /\ retval.val.result.ok

\* on_query_finished on a visible pane and resize.
C21_WitnessVisible ==
    /\ IsSome(retval)
    /\ call.fn = "on_query_finished"
    /\ call.args.is_visible
    /\ retval.val.self.state = 1

----------------------------------------------------------------------------
(* Claims about the registry and the configuration *)

\* The Browser pane types at the leaves of the pane trees of the tabs.
BrowsersOfTabs ==
    {NodeAt(context.config.tabs[t].panes, q).pane.pane :
        <<t, q>> \in {tq \in UNION {{<<t, q>> : q \in NodePaths(context.config.tabs[t].panes)} :
                                      t \in 1..Len(context.config.tabs)} :
            /\ NodeAt(context.config.tabs[tq[1]].panes, tq[2]).type = "Pane"
            /\ NodeAt(context.config.tabs[tq[1]].panes, tq[2]).pane.pane.tag = "Browser"}}

\* C27: every Browser pane type at a leaf of a tab's pane tree is in the
\* registry from construction on, each lookup of it succeeds, and every
\* lookup of one key reaches the one instance made for it, which is the
\* one TagBrowserPane::new built from that key.
C27_ConfiguredBrowsersFound ==
    /\ \A b \in BrowsersOfTabs :
          /\ b \in DOMAIN container.others
          /\ b \in DOMAIN new(context).others
          /\ container.others[b].target_pane = b
    /\ \A i \in GetMuts :
          lookups[i].pane \in BrowsersOfTabs =>
              /\ lookups[i].result.ok
              /\ lookups[i].result.val.variant = "Others"
              /\ lookups[i].result.val.ref = <<"others", lookups[i].pane>>
              /\ lookups[i].seen = Some(LastWritten(i, lookups[i].pane))

\* The Browser pane that is in both tabs, once inside a nested split:
\* looked up, written to, and looked up again.
C27_Witness ==
    /\ Len(context.config.tabs) = 2
    /\ Len(lookups) = 3
    /\ lookups[1].pane = PaneTypeBrowser("genre", Some(<<";">>))
    /\ lookups[1].result.ok
    /\ lookups[2].event = "pane_call"
    /\ lookups[3].pane = lookups[1].pane
    /\ lookups[3].seen = Some(lookups[2].wrote)

\* The instances a registry holds, whatever state each is in: the static
\* fields with the kind of pane in each, and the keys of the dynamic panes
\* with what each was built from.
Instances(self) ==
    [static |-> [f \in DOMAIN self \ {"others"} |-> self[f].kind],
     others |-> [k \in DOMAIN self.others |-> [self.others[k] EXCEPT !.state = 0]]]

\* C29: a get_mut, whatever it is asked for and whether it succeeds, leaves
\* the registry as it was, so that the registry always holds the instances
\* it held after construction.
C29_LookupKeepsInstances ==
    /\ [](Instances(container) = Instances(new(context)))
    /\ [][(Len(lookups') > Len(lookups) /\ IsGetMut(lookups'[Len(lookups')])) =>
            container' = container]_vars

\* A lookup that failed, then one that built a Property pane, with dynamic
\* panes in the registry.
C29_Witness ==
    /\ Len(lookups) = 2
    /\ lookups[1].pane.tag = "Browser" /\ ~lookups[1].result.ok
    /\ lookups[2].pane.tag = "Property" /\ lookups[2].result.ok
    /\ DOMAIN container.others # {}

\* A lookup of a static pane after one wrote to it.
C29_WitnessStatic ==
    /\ Len(lookups) = 3
    /\ lookups[1].pane = PaneType("Queue")
    /\ lookups[2].event = "pane_call"
    /\ lookups[3].pane = PaneType("Queue")
    /\ container.queue.state = 1

----------------------------------------------------------------------------
(* Claims about the status properties *)

\* The label and the style override configured for the state the status is in.
CurrentOf(p, status) ==
    LET on == IF p.tag = "Repeat" THEN status.repeat ELSE status.random
        v == IF p.tag = "Consume" THEN status.consume ELSE status.single
    IN  IF p.tag = "State"
        THEN (CASE status.state = "Play" ->
                        [label |-> p.playing_label, style |-> p.playing_style]
                [] status.state = "Pause" ->
                        [label |-> p.paused_label, style |-> p.paused_style]
                [] status.state = "Stop" ->
                        [label |-> p.stopped_label, style |-> p.stopped_style])
        ELSE IF p.tag \in {"Repeat", "Random"}
        THEN (IF on THEN [label |-> p.on_label, style |-> p.on_style]
              ELSE [label |-> p.off_label, style |-> p.off_style])
        ELSE (CASE v = "On" -> [label |-> p.on_label, style |-> p.on_style]
                [] v = "Off" -> [label |-> p.off_label, style |-> p.off_style]
                [] v = "Oneshot" -> [label |-> p.oneshot_label, style |-> p.oneshot_style])

IsToggle(f) ==
    /\ f.kind = "Property"
    /\ f.prop.cls = "Status"
    /\ f.prop.tag \in {"State", "Repeat", "Random", "Consume", "Single"}

\* C25: as_span of State, Repeat, Random, Consume and Single is one span
\* with the label of the current state, in that state's style when it has
\* one and in the base style of the node when it has none.
C25_CurrentStateLabelAndStyle ==
    (op = "as_span" /\ IsToggle(prop)) =>
        LET c == CurrentOf(prop.prop, context.status)
        IN  out = Some(Left(Span(c.label,
                                 IF IsSome(c.style) THEN c.style.val ELSE StyleOf(prop))))

\* Repeat off, which has no style of its own, on a node with a base style,
\* while "on" has a style.
C25_Witness ==
    /\ op = "as_span" /\ IsToggle(prop)
    /\ prop.prop.tag = "Repeat"
    /\ ~context.status.repeat
    /\ prop.style = Some(Red)
    /\ IsSome(prop.prop.on_style)
    /\ out = Some(Left(Span(prop.prop.off_label, Red)))

\* Consume in oneshot, with its own style, on a node with a base style.
C25_WitnessOwnStyle ==
    /\ op = "as_span" /\ IsToggle(prop)
    /\ prop.prop.tag = "Consume"
    /\ context.status.consume = "Oneshot"
    /\ prop.style = Some(Red)
    /\ out = Some(Left(Span(prop.prop.oneshot_label, Green)))

\* The seconds left to play: the durations of the queue entries from the
\* one that is playing to the last, an entry without a duration counting 0.
RECURSIVE SecondsFrom(_, _)
SecondsFrom(queue, i) ==
    IF i > Len(queue) THEN 0
    ELSE (IF IsSome(queue[i].duration) THEN queue[i].duration.val ELSE 0)
         + SecondsFrom(queue, i + 1)

Playing == {i \in 1..Len(context.queue) : Some(context.queue[i].id) = context.status.songid}

IsQueueTimeRemaining(f) ==
    f.kind = "Property" /\ f.prop.cls = "Status" /\ f.prop.tag = "QueueTimeRemaining"

\* C24: QueueTimeRemaining always resolves, to the sum of the durations of
\* the queue entries from the playing one on, and to zero when none plays.
C24_RemainingTime ==
    (op = "as_span" /\ IsQueueTimeRemaining(prop)) =>
        LET secs == IF Playing = {} THEN 0
                    ELSE SecondsFrom(context.queue, CHOOSE i \in Playing : TRUE)
        IN  out = Some(Left(Span(format_to_duration(secs, prop.prop.separator),
                                 StyleOf(prop))))

\* The second of three entries plays, the third has no duration.
C24_Witness ==
    /\ op = "as_span" /\ IsQueueTimeRemaining(prop)
    /\ Len(context.queue) = 3
    /\ context.status.songid = Some(2)
    /\ context.queue[1].duration = Some(3600)
    /\ context.queue[2].duration = Some(61)
    /\ context.queue[3].duration = None
    /\ out.val.left.content = <<"1", "m">> \o prop.prop.separator \o <<"1", "s">>

\* Nothing plays and the queue has entries with durations.
C24_WitnessNothingPlaying ==
    /\ op = "as_span" /\ IsQueueTimeRemaining(prop)
    /\ context.status.songid = None
    /\ \E i \in 1..Len(context.queue) : IsSome(context.queue[i].duration)
    /\ out.val.left.content = <<"0", "s">>

----------------------------------------------------------------------------
(* Claims about the styles of a group *)

SpansOf(e) == IF IsLeft(e) THEN <<e.left>> ELSE e.right

\* The spans of a member, each in its style patched onto the base style.
PatchedOnto(base, spans) ==
    [k \in 1..Len(spans) |-> Span(spans[k].content, PatchStyle(base, spans[k].style))]

\* C23: the spans as_span returns for a Group are the spans of its members
\* in order, each in the member's style patched onto the style of the
\* group: an attribute the member sets is the member's, one it leaves unset
\* is the group's.
C23_GroupStylePatched ==
    (op = "as_span" /\ prop.kind = "Group" /\ IsSome(out)) =>
        out = Some(Right(Concat(
                [i \in 1..Len(prop.group) |->
                    PatchedOnto(StyleOf(prop),
                        SpansOf(as_span(prop.group[i], song, context,
                                        tag_separator, strategy).val))])))

----------------------------------------------------------------------------
(* Claims about the two resolvers of a song format *)

RECURSIVE HasSticker(_)
HasSticker(f) ==
    \/ f.kind = "Sticker"
    \/ f.kind = "Group" /\ \E i \in 1..Len(f.group) : HasSticker(f.group[i])
    \/ IsSome(f.default) /\ HasSticker(f.default.val)

\* The texts a format can hand to ellipsize for a song: its literals and
\* the values of its properties, those of its defaults included.
RECURSIVE Fragments(_, _, _, _)
Fragments(f, s, separator, strat) ==
    (CASE f.kind = "Text" -> {f.text}
       [] f.kind = "Property" ->
            (IF IsSome(format(s, f.prop, separator, strat))
             THEN {format(s, f.prop, separator, strat).val} ELSE {})
       [] f.kind = "Group" ->
            UNION {Fragments(f.group[i], s, separator, strat) : i \in 1..Len(f.group)}
       [] OTHER -> {})
    \cup (IF IsSome(f.default) THEN Fragments(f.default.val, s, separator, strat) ELSE {})

CallFragments == Fragments(call.format, call.self, call.tag_separator, call.strategy)

\* The text of a line: the contents of its spans one after the other.
LineText(line) == Concat([k \in 1..Len(line.spans) |-> line.spans[k].content])

AsStringOfCall == as_string(call.format, Some(call.self), call.tag_separator, call.strategy)

\* The line resolves exactly when the text does, and to the same text.
SameText ==
    /\ IsSome(retval.val) <=> IsSome(AsStringOfCall)
    /\ IsSome(retval.val) => LineText(retval.val.val) = AsStringOfCall.val

FitsAll ==
    /\ call.fn = "as_line_ellipsized" /\ IsSome(retval)
    /\ ~HasSticker(call.format)
    /\ \A t \in CallFragments : Len(t) <= call.max_len

\* C30 as stated: for a format without Sticker nodes and a max_len no
\* fragment exceeds, as_line_ellipsized is None exactly when as_string is,
\* and the text of its spans is the text as_string returns.
C30_SameTextAsString == FitsAll => SameText

\* C30, amended: the same when moreover no fragment has a line break in it.
C30_SameTextWithoutLineBreaks ==
    (FitsAll /\ \A t \in CallFragments : \A i \in 1..Len(t) : t[i] # "\n") => SameText

\* A group of a property that falls back to its default and a literal, in
\* a width that fits both.
C30_Witness ==
    /\ FitsAll
    /\ call.format.kind = "Group" /\ Len(call.format.group) = 2
    /\ call.format.group[1] = Property(SongProperty("Track"), None, Some(Fallback))
    /\ call.format.group[2] = Text(<<"a", "b">>, None, None)
    /\ "track" \notin DOMAIN call.self.metadata
    /\ LineText(retval.val.val) = <<"f", "a", "b">>

\* A group that fails without a default: neither resolver has a value.
C30_WitnessNone ==
    /\ FitsAll
    /\ call.format.kind = "Group"
    /\ ~IsSome(retval.val)
    /\ ~IsSome(AsStringOfCall)

====
